---- MODULE Spec2Model ----
(***************************************************************************)
(* Fleet dashboard (kristonela/TLV_task): the composables useFleet,        *)
(* useVehicleDetail, useWeather, useMap and the orchestrating handlers of  *)
(* App.vue, as one state machine.                                          *)
(*                                                                         *)
(* JavaScript runs one task at a time.  Every handler is therefore cut at  *)
(* its network awaits: the synchronous part up to the first request is one *)
(* action, and each response (resolve or reject) is one action that runs   *)
(* the continuation up to the next request.  `await nextTick()` and the    *)
(* await of an already settled promise are microtasks; no other task runs  *)
(* in between, so they do not cut an action.                               *)
(***************************************************************************)
EXTENDS Integers, Sequences, FiniteSets, TLC

VARIABLES
    groupCode, vehicles, loading, lastRefresh,                   \* useFleet
    trips, ecoEvents, loadingTrips, loadingEco, fromDate, toDate, \* useVehicleDetail
    weather, loadingWeather,                                     \* useWeather
    selectedVehicle, currentAddress, activeTab, mapMode,         \* App.vue
    speedChart, ecoChart,                                        \* App.vue
    map, markersLayer, historyLayer,                             \* useMap
    inflight, errors, delivered                                  \* environment

fleetVars  == <<groupCode, vehicles, loading, lastRefresh>>
detailVars == <<trips, ecoEvents, loadingTrips, loadingEco, fromDate, toDate>>
weatherVars == <<weather, loadingWeather>>
appVars    == <<selectedVehicle, currentAddress, activeTab, mapMode>>
chartVars  == <<speedChart, ecoChart>>
mapVars    == <<map, markersLayer, historyLayer>>
envVars    == <<inflight, errors, delivered>>
vars == <<fleetVars, detailVars, weatherVars, appVars, chartVars, mapVars, envVars>>

(***************************************************************************)
(* Bounds of the model.                                                    *)
(***************************************************************************)
MaxVehicles == 3   \* longest vehicle list the provider returns (fleet spec)
MaxGroups   == 2   \* longest group list the provider returns
MaxInFlight == 2   \* requests that may be pending at the same time

(***************************************************************************)
(* JavaScript values.  null / undefined in an object-valued cell is the    *)
(* record Null; a response body is a record telling its JavaScript type.   *)
(***************************************************************************)
Null == [null |-> TRUE]

JsArray(items) == [type |-> "array", items |-> items]
JsNull         == [type |-> "null", items |-> <<>>]
JsObject       == [type |-> "object", items |-> <<>>]
JsString       == [type |-> "string", items |-> <<>>]
JsNumber       == [type |-> "number", items |-> <<>>]

\* Array.isArray(x)
IsArray(x) == x.type = "array"
\* truthiness of a response body (an array or object is truthy, null is not)
Truthy(x) == x.type # "null"

\* A number, or NaN, as parseFloat returns it (numbers in hundredths).
Num(n) == [nan |-> FALSE, val |-> n]
NaN    == [nan |-> TRUE, val |-> 0]
isNaN(p) == p.nan

\* parseFloat of a raw coordinate of the provider: a decimal string parses,
\* undefined (a missing field), the empty string and other text give NaN.
parseFloat(raw) ==
    CASE raw = "50.07" -> Num(5007)
      [] raw = "14.43" -> Num(1443)
      [] raw = "49.19" -> Num(4919)
      [] raw = "16.61" -> Num(1661)
      [] raw = "48.97" -> Num(4897)
      [] raw = "14.47" -> Num(1447)
      [] OTHER -> NaN

\* truthiness of a raw coordinate (`!v.LastPosition?.Latitude`)
TruthyRaw(raw) == raw \notin {"undefined", ""}

(***************************************************************************)
(* useFleet.js: derived statistics, recomputed from `vehicles` on read.    *)
(***************************************************************************)
RECURSIVE SumSpeed(_)
SumSpeed(vs) == IF vs = <<>> THEN 0 ELSE Head(vs).Speed + SumSpeed(Tail(vs))

IsMoving(v) == v.Speed > 0
IsIdleBroken(v) == v.Speed >= 0
IsIdle(v) == v.Speed = 0

\* Math.round of the rational num/den (den > 0): floor(num/den + 1/2)
MathRoundTruncated(num, den) == num \div den
MathRound(num, den) == (2 * num + den) \div (2 * den)

movingCountOf(vs) == Len(SelectSeq(vs, IsMoving))
idleCountOf(vs)   == Len(SelectSeq(vs, IsIdle))
avgSpeedOf(vs) ==
    LET moving == SelectSeq(vs, IsMoving)
    IN  IF Len(moving) = 0 THEN 0
        ELSE MathRound(SumSpeed(moving), Len(moving))

movingCount == movingCountOf(vehicles)
idleCount   == idleCountOf(vehicles)
avgSpeed    == avgSpeedOf(vehicles)

(***************************************************************************)
(* The providers.  A provider is a fixed database queried by the request's *)
(* arguments; what varies from one request to the next is whether it       *)
(* fails and which shape its answer has.                                   *)
(***************************************************************************)
Group(code) == [Code |-> code]
GroupCodes == <<"G1", "G2", "G3">>
GroupLists ==
    UNION {[1..n -> {Group(GroupCodes[i]) : i \in 1..MaxGroups}] : n \in 0..MaxGroups}

Vehicle(code, speed, lat, lng) ==
    [Code |-> code, Speed |-> speed, Latitude |-> lat, Longitude |-> lng]

\* The fleet of the orchestrator specification: one idle and one moving
\* vehicle with a position, and one vehicle that never reported a position.
VehA == Vehicle("A", 0, "50.07", "14.43")
VehB == Vehicle("B", 45, "49.19", "16.61")
VehC == Vehicle("C", 120, "undefined", "undefined")
VehA2 == Vehicle("A", 45, "48.97", "14.47")
\* a vehicle whose latitude parses and whose longitude does not
VehD == Vehicle("D", 30, "50.07", "abc")
Fleet1 == <<VehA, VehB, VehC>>
Fleet2 == <<VehA2, VehB>>

\* The vehicle lists of the fleet specification: every list of at most
\* MaxVehicles vehicles over the speeds below.
Speeds == {0, 45, 120}
VehicleCodes == <<"V1", "V2", "V3", "V4", "V5">>
FleetVehicle(i, speed) ==
    Vehicle(VehicleCodes[i], speed,
            IF i = 1 THEN "50.07" ELSE IF i = 2 THEN "49.19" ELSE "undefined",
            IF i = 1 THEN "14.43" ELSE IF i = 2 THEN "16.61" ELSE "undefined")
FleetLists ==
    UNION {{[i \in 1..n |-> FleetVehicle(i, f[i])] : f \in [1..n -> Speeds]} :
           n \in 0..MaxVehicles}

\* new Date().toLocaleTimeString('cs-CZ') at the moment of a refresh
Times == {"10:00:00", "10:00:01"}

Dates == {"2024-05-01", "2024-05-08"}
weekAgoDate == "2024-05-01"
todayDate   == "2024-05-08"

\* from() and to() of useVehicleDetail: `${fromDate}T00:00`, `${toDate}T23:59`
DateTime(date, time) == [date |-> date, time |-> time]
NoTime == DateTime("-", "-")
\* a from() that keeps the default start date
fromDefault == DateTime(weekAgoDate, "00:00")
from == DateTime(fromDate, "00:00")
to   == DateTime(toDate, "23:59")

\* Trips of a vehicle in a time window, as the telemetry provider holds them.
\* The endpoints of a trip: a coordinate pair, or missing.
Position(lat, lng) == [Latitude |-> lat, Longitude |-> lng]
StartOf(code) ==
    CASE code = "A" -> Position("50.07", "14.43")
      [] code = "B" -> Position("49.19", "16.61")
      [] code = "D" -> Position("50.07", "14.43")
      [] OTHER      -> Null
FinishOf(code) ==
    CASE code = "A" -> Position("48.97", "14.47")
      [] code = "B" -> Position("48.97", "16.61")
      [] code = "D" -> Position("48.97", "abc")
      [] OTHER      -> Null
Trip(code, f, t, max, avg) ==
    [Vehicle |-> code, From |-> f, To |-> t, MaxSpeed |-> max, AverageSpeed |-> avg,
     StartPosition |-> StartOf(code), FinishPosition |-> FinishOf(code)]
TripsOf(code, f, t) == <<Trip(code, f, t, 90, 50)>>

\* Eco events of a vehicle in a time window.
EcoEvent(code, f, t, type, severity, speed) ==
    [Vehicle |-> code, From |-> f, To |-> t, EventType |-> type,
     EventSeverity |-> severity, Speed |-> speed]
EcoOf(code, f, t) == <<EcoEvent(code, f, t, 5, 2, 72)>>

\* Position samples of a vehicle, by time ascending; every vehicle drove its
\* own route.
Sample(lat, lng, speed) == [Lat |-> lat, Lng |-> lng, Speed |-> speed]
PositionsOf(code) ==
    CASE code = "A" -> <<Sample("50.07", "14.43", 50), Sample("48.97", "14.47", 80)>>
      [] code = "B" -> <<Sample("49.19", "16.61", 100), Sample("48.97", "16.61", 70)>>
      [] code = "D" -> <<Sample("50.07", "14.43", 50), Sample("abc", "14.47", 80)>>
      [] OTHER      -> <<Sample("48.97", "14.43", 30), Sample("49.19", "14.47", 95)>>
\* getVehicleHistory answers with one batch: [{Positions: [...]}]
HistoryOf(code) == <<[Positions |-> JsArray(PositionsOf(code))]>>

\* The weather provider's reading at a place (degrees and km/h).
CurrentWeather(lat, lng, code) ==
    [weather_code |-> code, temperature_2m |-> (lat.val \div 100) - 30,
     wind_speed_10m |-> lng.val \div 100]

\* The geocoder's texts for a place.
RoadCity(lat, lng)    == [text |-> "road, city", lat |-> lat, lng |-> lng]
DisplayName(lat, lng) == [text |-> "display_name", lat |-> lat, lng |-> lng]
\* its answer: the structured address may lack road or city, and
\* display_name may be absent
GeocodeResult(lat, lng, hasRoadCity, hasName) ==
    [address |-> IF hasRoadCity THEN RoadCity(lat, lng) ELSE Null,
     display_name |-> IF hasName THEN DisplayName(lat, lng) ELSE Null]

(***************************************************************************)
(* Requests in flight, in the order they were issued.                      *)
(***************************************************************************)
NoArg == "-"
Req(api, caller, code, f, t, v, lat, lng) ==
    [api |-> api, caller |-> caller, code |-> code, from |-> f, to |-> t,
     v |-> v, lat |-> lat, lng |-> lng]

Remove(seq, i) == [j \in 1..(Len(seq) - 1) |-> IF j < i THEN seq[j] ELSE seq[j + 1]]

CanIssue(n) == Len(inflight) + n <= MaxInFlight

Delivered(r, ok, body) == [req |-> r, ok |-> ok, body |-> body]
NoDelivery == Delivered(Null, TRUE, JsNull)

(***************************************************************************)
(* useMap.js                                                               *)
(***************************************************************************)
setView(lat, lng, zoom) == [op |-> "setView", points |-> <<<<lat, lng>>>>, zoom |-> zoom]
fitBounds(points) == [op |-> "fitBounds", points |-> points, zoom |-> 0]

\* map.remove(): the surface is torn down; the variable keeps the object
Removed == [op |-> "remove", points |-> <<>>, zoom |-> 0]
\* onUnmounted: `if (map) map.remove()`
remove(view) == IF view = Null THEN view ELSE Removed
\* the component is mounted and not yet unmounted
Attached == map # Null /\ map.op # "remove"
Unmounted == map # Null /\ map.op = "remove"
\* map.fitBounds(points) on the map the variable refers to; on a removed
\* map the call is made on the torn-down object
fitBoundsOn(view, points) ==
    IF view.op = "remove" THEN [view EXCEPT !.points = points] ELSE fitBounds(points)

vehicleIcon(speed) == IF speed > 0 THEN "moving" ELSE "idle"

VehicleMarker(v) ==
    [latlng |-> <<parseFloat(v.Latitude), parseFloat(v.Longitude)>>,
     icon |-> vehicleIcon(v.Speed), v |-> v]

\* the forEach body of updateMarkers: does vehicle v get a marker?
HasMarker(v) ==
    /\ TruthyRaw(v.Latitude)
    /\ ~isNaN(parseFloat(v.Latitude))
    /\ ~isNaN(parseFloat(v.Longitude))

RECURSIVE MarkersOf(_)
MarkersOf(vs) ==
    IF vs = <<>> THEN <<>>
    ELSE (IF HasMarker(Head(vs)) THEN <<VehicleMarker(Head(vs))>> ELSE <<>>)
         \o MarkersOf(Tail(vs))

\* L.layerGroup(): a layer group and the layers it holds
LayerGroup(layers) == [layers |-> layers]

\* updateMarkers(vehicles, onVehicleClick): the new content of markersLayer
updateMarkers(layer, vs) == IF layer = Null THEN layer ELSE LayerGroup(MarkersOf(vs))

\* clearHistory(): historyLayer?.clearLayers()
clearHistory(layer) == IF layer = Null THEN layer ELSE LayerGroup(<<>>)

\* panTo(vehicle): the view after it
panTo(view, vehicle) ==
    IF ~TruthyRaw(vehicle.Latitude) THEN view
    ELSE LET lat == parseFloat(vehicle.Latitude)
             lng == parseFloat(vehicle.Longitude)
         IN  IF ~isNaN(lat) THEN setView(lat, lng, 13) ELSE view

Polyline(a, b, color) == [type |-> "polyline", points |-> <<a, b>>, color |-> color]
Pin(at, color, popup) == [type |-> "marker", points |-> <<at>>, color |-> color,
                          popup |-> popup]

\* the colour of a history segment by the speed of its first sample
segmentColor(speed) ==
    IF speed > 90 THEN "#ff4757" ELSE IF speed > 60 THEN "#f5a623" ELSE "#3dd68c"

\* positions.map((p) => [parseFloat(p.Lat), parseFloat(p.Lng)])
CoordsOf(positions) ==
    [i \in 1..Len(positions) |->
        <<parseFloat(positions[i].Lat), parseFloat(positions[i].Lng)>>]

\* `!positions?.length`: undefined, null or an empty array
NoPositions(positions) == ~IsArray(positions) \/ Len(positions.items) = 0

\* the layers drawHistory adds: one polyline per segment, then the two pins
RouteLayers(samples) ==
    LET coords == CoordsOf(samples)
        n == Len(samples)
    IN  [i \in 1..(n - 1) |->
            Polyline(coords[i], coords[i + 1], segmentColor(samples[i].Speed))]
        \o <<Pin(coords[1], "#3dd68c", "Start"), Pin(coords[n], "#ff4757", "End")>>

\* drawHistory(positions): the three things it writes
drawHistoryLayer(layer, positions) ==
    IF layer = Null THEN layer
    ELSE IF NoPositions(positions) THEN LayerGroup(<<>>)
    ELSE LayerGroup(RouteLayers(positions.items))

\* a drawHistory that leaves the vehicle markers in place
drawHistoryKeepsMarkers(hLayer, mLayer) == mLayer
\* markersLayer.clearLayers(), after the guard on historyLayer
drawHistoryMarkers(hLayer, mLayer) == IF hLayer = Null THEN mLayer ELSE LayerGroup(<<>>)

drawHistoryView(hLayer, view, positions) ==
    IF hLayer = Null \/ NoPositions(positions) THEN view
    ELSE fitBoundsOn(view, CoordsOf(positions.items))

\* drawTripPins(trip)
HasEndpoints(trip) == trip.StartPosition # Null /\ trip.FinishPosition # Null
TripStart(trip) ==
    <<parseFloat(trip.StartPosition.Latitude), parseFloat(trip.StartPosition.Longitude)>>
TripFinish(trip) ==
    <<parseFloat(trip.FinishPosition.Latitude), parseFloat(trip.FinishPosition.Longitude)>>
\* the two pins and the dashed guide line (the trips carry no addresses)
TripLayers(trip) ==
    <<Pin(TripStart(trip), "#3dd68c", "Start: "),
      Pin(TripFinish(trip), "#ff4757", "End: "),
      Polyline(TripStart(trip), TripFinish(trip), "#f5a623")>>
\* a drawTripPins that does not clear the route layer first
drawTripPinsAdds(layer, trip) ==
    IF ~HasEndpoints(trip) THEN layer ELSE LayerGroup(layer.layers \o TripLayers(trip))
drawTripPinsLayer(layer, trip) ==
    IF ~HasEndpoints(trip) THEN layer ELSE LayerGroup(TripLayers(trip))
drawTripPinsView(view, trip) ==
    IF ~HasEndpoints(trip) THEN view
    ELSE fitBoundsOn(view, <<TripStart(trip), TripFinish(trip)>>)

\* fitAll(vehicles): the points it fits the viewport to
RECURSIVE FitPoints(_)
FitPoints(vs) ==
    IF vs = <<>> THEN <<>>
    ELSE (IF TruthyRaw(Head(vs).Latitude) /\ ~isNaN(parseFloat(Head(vs).Latitude))
          THEN <<<<parseFloat(Head(vs).Latitude), parseFloat(Head(vs).Longitude)>>>>
          ELSE <<>>)
         \o FitPoints(Tail(vs))
fitAllView(view, vs) ==
    IF Len(FitPoints(vs)) > 0 THEN fitBoundsOn(view, FitPoints(vs)) ELSE view

\* data?.[0]?.Positions
FirstPositions(data) ==
    IF ~Truthy(data) \/ Len(data.items) = 0 THEN JsNull ELSE data.items[1].Positions

(***************************************************************************)
(* Init: the state after setup() of App.vue, before the component mounts.  *)
(***************************************************************************)
Init ==
    /\ groupCode = ""
    /\ vehicles = <<>>
    /\ loading = FALSE
    /\ lastRefresh = ""
    /\ trips = <<>>
    /\ ecoEvents = <<>>
    /\ loadingTrips = FALSE
    /\ loadingEco = FALSE
    /\ fromDate = weekAgoDate
    /\ toDate = todayDate
    /\ weather = Null
    /\ loadingWeather = FALSE
    /\ selectedVehicle = Null
    /\ currentAddress = Null
    /\ activeTab = "trips"
    /\ mapMode = "live"
    /\ speedChart = Null
    /\ ecoChart = Null
    /\ map = Null
    /\ markersLayer = Null
    /\ historyLayer = Null
    /\ inflight = <<>>
    /\ errors = {}
    /\ delivered = NoDelivery

(***************************************************************************)
(* Mounting: useMap's onMounted creates the map and its two layers, then   *)
(* App.vue's onMounted calls init(), which issues the groups request.      *)
(***************************************************************************)
onMounted ==
    /\ map = Null
    /\ map' = setView(Num(5007), Num(1443), 7)
    /\ markersLayer' = LayerGroup(<<>>)
    /\ historyLayer' = LayerGroup(<<>>)
    /\ inflight' = Append(inflight,
                     Req("getGroups", "init", NoArg, NoTime, NoTime, Null, NaN, NaN))
    /\ delivered' = NoDelivery
    /\ UNCHANGED <<fleetVars, detailVars, weatherVars, appVars, chartVars, errors>>

(***************************************************************************)
(* useFleet.js refresh(): the part before the await.                       *)
(***************************************************************************)
refreshRequest(caller, group) ==
    Req("getVehicles", caller, group, NoTime, NoTime, Null, NaN, NaN)

\* init() taking the last group instead of the first
initResolvedLastGroup(i, groups) ==
    /\ i \in 1..Len(inflight)
    /\ inflight[i].api = "getGroups"
    /\ delivered' = Delivered(inflight[i], TRUE, JsArray(groups))
    /\ IF Len(groups) > 0
       THEN /\ groupCode' = groups[Len(groups)].Code
            /\ loading' = TRUE
            /\ inflight' = Append(Remove(inflight, i),
                                  refreshRequest("init", groups[Len(groups)].Code))
       ELSE /\ inflight' = Remove(inflight, i)
            /\ UNCHANGED <<groupCode, loading>>
    /\ UNCHANGED <<vehicles, lastRefresh, detailVars, weatherVars, appVars,
                   chartVars, mapVars, errors>>

\* init() resumes with the group list.
initResolved(i, groups) ==
    /\ i \in 1..Len(inflight)
    /\ inflight[i].api = "getGroups"
    /\ delivered' = Delivered(inflight[i], TRUE, JsArray(groups))
    /\ IF Len(groups) > 0
       THEN /\ groupCode' = groups[1].Code
            /\ loading' = TRUE
            /\ inflight' = Append(Remove(inflight, i),
                                  refreshRequest("init", groups[1].Code))
       ELSE /\ inflight' = Remove(inflight, i)
            /\ UNCHANGED <<groupCode, loading>>
    /\ UNCHANGED <<vehicles, lastRefresh, detailVars, weatherVars, appVars,
                   chartVars, mapVars, errors>>

\* getGroups() rejects: init() rejects, and so does the onMounted hook.
initRejected(i) ==
    /\ i \in 1..Len(inflight)
    /\ inflight[i].api = "getGroups"
    /\ delivered' = Delivered(inflight[i], FALSE, JsNull)
    /\ inflight' = Remove(inflight, i)
    /\ errors' = errors \cup {"init"}
    /\ UNCHANGED <<fleetVars, detailVars, weatherVars, appVars, chartVars, mapVars>>

\* The REFRESH button: refresh() up to its await.
refresh ==
    /\ Attached
    /\ CanIssue(1)
    /\ loading' = TRUE
    /\ inflight' = Append(inflight, refreshRequest("refresh", groupCode))
    /\ delivered' = NoDelivery
    /\ UNCHANGED <<groupCode, vehicles, lastRefresh, detailVars, weatherVars,
                   appVars, chartVars, mapVars, errors>>

\* a refresh that re-matches the selection to the vehicle of the same code
\* in the new list
refreshResolvedRematch(i, list, now) ==
    /\ i \in 1..Len(inflight)
    /\ inflight[i].api = "getVehicles"
    /\ delivered' = Delivered(inflight[i], TRUE, JsArray(list))
    /\ inflight' = Remove(inflight, i)
    /\ vehicles' = list
    /\ lastRefresh' = now
    /\ loading' = FALSE
    /\ markersLayer' = updateMarkers(markersLayer, list)
    /\ selectedVehicle' =
           IF selectedVehicle # Null
              /\ \E k \in 1..Len(list) : list[k].Code = selectedVehicle.Code
           THEN list[CHOOSE k \in 1..Len(list) : list[k].Code = selectedVehicle.Code]
           ELSE selectedVehicle
    /\ UNCHANGED <<groupCode, detailVars, weatherVars, currentAddress, activeTab,
                   mapMode, chartVars, map, historyLayer, errors>>

\* refresh() resumes with the vehicle list; the watcher on `vehicles`
\* re-renders the live markers.
refreshResolved(i, list, now) ==
    /\ i \in 1..Len(inflight)
    /\ inflight[i].api = "getVehicles"
    /\ delivered' = Delivered(inflight[i], TRUE, JsArray(list))
    /\ inflight' = Remove(inflight, i)
    /\ vehicles' = list
    /\ lastRefresh' = now
    /\ loading' = FALSE
    /\ markersLayer' = IF Unmounted THEN markersLayer
                      ELSE updateMarkers(markersLayer, list)
    /\ UNCHANGED <<groupCode, detailVars, weatherVars, appVars, chartVars,
                   map, historyLayer, errors>>

\* refresh() without its `finally`: a failure leaves loading set
refreshRejectedNoFinally(i) ==
    /\ i \in 1..Len(inflight)
    /\ inflight[i].api = "getVehicles"
    /\ delivered' = Delivered(inflight[i], FALSE, JsNull)
    /\ inflight' = Remove(inflight, i)
    /\ errors' = errors \cup {inflight[i].caller}
    /\ UNCHANGED <<fleetVars, detailVars, weatherVars, appVars, chartVars, mapVars>>

\* refresh() clearing the collection before the request: a failure leaves
\* it empty
refreshRejectedClears(i) ==
    /\ i \in 1..Len(inflight)
    /\ inflight[i].api = "getVehicles"
    /\ delivered' = Delivered(inflight[i], FALSE, JsNull)
    /\ inflight' = Remove(inflight, i)
    /\ loading' = FALSE
    /\ vehicles' = <<>>
    /\ errors' = errors \cup {inflight[i].caller}
    /\ UNCHANGED <<groupCode, lastRefresh, detailVars, weatherVars,
                   appVars, chartVars, mapVars>>

\* getVehicles() rejects: `finally` clears loading, the rejection goes on to
\* the caller (init, or the button's event handler).
refreshRejected(i) ==
    /\ i \in 1..Len(inflight)
    /\ inflight[i].api = "getVehicles"
    /\ delivered' = Delivered(inflight[i], FALSE, JsNull)
    /\ inflight' = Remove(inflight, i)
    /\ loading' = FALSE
    /\ errors' = errors \cup {inflight[i].caller}
    /\ UNCHANGED <<groupCode, vehicles, lastRefresh, detailVars, weatherVars,
                   appVars, chartVars, mapVars>>

(***************************************************************************)
(* useWeather.js                                                           *)
(***************************************************************************)
Meta(icon, label) == [icon |-> icon, label |-> label]

\* the keys of WMO_CODES (the emoji icons are written by name)
WMO_KEYS == {0, 1, 2, 3, 45, 48, 51, 53, 55, 56, 57, 61, 63, 65, 66, 67, 71, 73, 75, 77, 80, 81, 82, 85, 86, 95, 96, 99}
WMO_CODES(code) ==
    CASE code = 0 -> Meta("sun", "Clear sky")
      [] code = 1 -> Meta("sun-small-cloud", "Mainly clear")
      [] code = 2 -> Meta("sun-cloud", "Partly cloudy")
      [] code = 3 -> Meta("cloud", "Overcast")
      [] code = 45 -> Meta("fog", "Fog")
      [] code = 48 -> Meta("fog", "Icy fog")
      [] code = 51 -> Meta("sun-rain", "Light drizzle")
      [] code = 53 -> Meta("sun-rain", "Drizzle")
      [] code = 55 -> Meta("rain", "Dense drizzle")
      [] code = 56 -> Meta("snow-cloud", "Freezing drizzle")
      [] code = 57 -> Meta("snow-cloud", "Heavy freezing drizzle")
      [] code = 61 -> Meta("rain", "Slight rain")
      [] code = 63 -> Meta("rain", "Rain")
      [] code = 65 -> Meta("rain", "Heavy rain")
      [] code = 66 -> Meta("snow-cloud", "Freezing rain")
      [] code = 67 -> Meta("snow-cloud", "Heavy freezing rain")
      [] code = 71 -> Meta("snowflake", "Slight snow")
      [] code = 73 -> Meta("snowflake", "Snow")
      [] code = 75 -> Meta("snowflake", "Heavy snow")
      [] code = 77 -> Meta("snow-cloud", "Snow grains")
      [] code = 80 -> Meta("sun-rain", "Slight showers")
      [] code = 81 -> Meta("rain", "Showers")
      [] code = 82 -> Meta("storm", "Heavy showers")
      [] code = 85 -> Meta("snow-cloud", "Snow showers")
      [] code = 86 -> Meta("snow-cloud", "Heavy snow showers")
      [] code = 95 -> Meta("storm", "Thunderstorm")
      [] code = 96 -> Meta("storm", "Thunderstorm w/ hail")
      [] code = 99 -> Meta("storm", "Thunderstorm w/ heavy hail")

UNKNOWN_CODE == Meta("thermometer", "Unknown")

\* a weather_code the response does not carry
Absent == -1

\* current.weather_code ?? 0, then WMO_CODES[code] ?? UNKNOWN_CODE
MetaOf(weather_code) ==
    LET code == IF weather_code = Absent THEN 0 ELSE weather_code
    IN  IF code \in WMO_KEYS THEN WMO_CODES(code) ELSE UNKNOWN_CODE

\* the snapshot fetchWeather stores
Snapshot(current) ==
    [icon |-> MetaOf(current.weather_code).icon,
     label |-> MetaOf(current.weather_code).label,
     temp |-> current.temperature_2m,
     wind |-> current.wind_speed_10m]

\* fetchWeather(lat, lng) up to its await
weatherRequest(lat, lng) ==
    Req("getCurrentWeather", "fetchWeather", NoArg, NoTime, NoTime, Null, lat, lng)

\* fetchWeather resumes with the provider's `current`
fetchWeatherResolved(i, weather_code) ==
    /\ i \in 1..Len(inflight)
    /\ inflight[i].api = "getCurrentWeather"
    /\ LET current == CurrentWeather(inflight[i].lat, inflight[i].lng, weather_code)
       IN  /\ delivered' = Delivered(inflight[i], TRUE, JsArray(<<current>>))
           /\ weather' = Snapshot(current)
    /\ loadingWeather' = FALSE
    /\ inflight' = Remove(inflight, i)
    /\ UNCHANGED <<fleetVars, detailVars, appVars, chartVars, mapVars, errors>>

\* getCurrentWeather rejects: caught and logged, loadingWeather cleared
fetchWeatherRejected(i) ==
    /\ i \in 1..Len(inflight)
    /\ inflight[i].api = "getCurrentWeather"
    /\ delivered' = Delivered(inflight[i], FALSE, JsNull)
    /\ loadingWeather' = FALSE
    /\ inflight' = Remove(inflight, i)
    /\ UNCHANGED <<fleetVars, detailVars, weather, appVars, chartVars, mapVars, errors>>

(***************************************************************************)
(* App.vue fetchAddress                                                    *)
(***************************************************************************)
addressRequest(lat, lng) ==
    Req("reverseGeocode", "fetchAddress", NoArg, NoTime, NoTime, Null, lat, lng)

\* (road && city) ? `${road}, ${city}` : (result.display_name ?? null)
AddressLabel(result) ==
    IF result.address # Null THEN result.address ELSE result.display_name

fetchAddressResolved(i, hasRoadCity, hasName) ==
    /\ i \in 1..Len(inflight)
    /\ inflight[i].api = "reverseGeocode"
    /\ LET result == GeocodeResult(inflight[i].lat, inflight[i].lng, hasRoadCity, hasName)
       IN  /\ delivered' = Delivered(inflight[i], TRUE, JsArray(<<result>>))
           /\ currentAddress' = AddressLabel(result)
    /\ inflight' = Remove(inflight, i)
    /\ UNCHANGED <<fleetVars, detailVars, weatherVars, selectedVehicle, activeTab,
                   mapMode, chartVars, mapVars, errors>>

\* reverseGeocode rejects: caught and logged
fetchAddressRejected(i) ==
    /\ i \in 1..Len(inflight)
    /\ inflight[i].api = "reverseGeocode"
    /\ delivered' = Delivered(inflight[i], FALSE, JsNull)
    /\ inflight' = Remove(inflight, i)
    /\ UNCHANGED <<fleetVars, detailVars, weatherVars, appVars, chartVars, mapVars, errors>>

(***************************************************************************)
(* App.vue charts.  The canvases live in DetailPanel: each is rendered     *)
(* when a vehicle is selected, its tab is active, its dataset is not       *)
(* loading and not empty.                                                  *)
(***************************************************************************)
\* a Chart instance on a canvas, with the number of instances created for
\* that canvas and not destroyed (itself included)
Chart(canvas, data) == [canvas |-> canvas, data |-> data, undestroyed |-> 1]
\* a draw that does not destroy the previous instance
destroyNothing(chart) == IF chart = Null THEN 0 ELSE chart.undestroyed
\* chart?.destroy(): the undestroyed instances it leaves
destroy(chart) == IF chart = Null THEN 0 ELSE chart.undestroyed - 1
\* new Chart(ctx, ...) after the destroy
newChart(left, canvas, data) == [Chart(canvas, data) EXCEPT !.undestroyed = left + 1]

speedCanvasPresent(sel, tab, isLoading, ts) ==
    sel # Null /\ tab = "trips" /\ ~isLoading /\ Len(ts) > 0

ecoCanvasPresent(sel, tab, isLoading, evs) ==
    sel # Null /\ tab = "eco" /\ ~isLoading /\ Len(evs) > 0

\* drawSpeedChart(): the chart instance after it
drawSpeedChart(chart, ctx, ts) ==
    IF ~ctx \/ Len(ts) = 0 THEN chart
    ELSE newChart(destroy(chart), "speedChart",
                  <<[i \in 1..Len(ts) |-> ts[i].MaxSpeed],
                    [i \in 1..Len(ts) |-> ts[i].AverageSpeed]>>)

\* drawEcoChart(): events counted by type
drawEcoChart(chart, ctx, evs) ==
    IF ~ctx \/ Len(evs) = 0 THEN chart
    ELSE newChart(destroy(chart), "ecoChart",
                  <<[i \in 1..Len(evs) |-> evs[i].EventType]>>)

(***************************************************************************)
(* DetailPanel.vue: the speed shown on the row of an eco event.  The       *)
(* provider sends the minimum 32-bit integer for a missing speed.          *)
(***************************************************************************)
INT32_MIN == -2147483647 - 1
\* ev.Speed + ' km/h'
KmH(speed) == [text |-> "km/h", value |-> speed]
NotAvailable == [text |-> "N/A", value |-> 0]
\* a row that shows whatever speed the provider sent
ecoSpeedUnguarded(ev) == KmH(ev.Speed)
\* ev.Speed > -2147483648 ? ev.Speed + ' km/h' : 'N/A'
ecoSpeed(ev) == IF ev.Speed > INT32_MIN THEN KmH(ev.Speed) ELSE NotAvailable
\* the rows of the eco list
EcoRows(evs) == [k \in 1..Len(evs) |-> ecoSpeed(evs[k])]

(***************************************************************************)
(* useVehicleDetail.js and the handlers of App.vue                         *)
(***************************************************************************)
tripsRequest(caller, v) == Req("getTrips", caller, v.Code, from, to, v, NaN, NaN)
ecoRequest(caller, v)   == Req("getEcoDriving", caller, v.Code, from, to, v, NaN, NaN)
historyRequest(v) == Req("getVehicleHistory", "onMapMode", v.Code, from, to, v, NaN, NaN)

\* (await getTrips(...)) || []
TripsFrom(body) == IF Truthy(body) THEN body.items ELSE <<>>
\* Array.isArray(data) ? data : []
EcoFrom(data) == IF IsArray(data) THEN data.items ELSE <<>>

\* a vehicle row of the list (shown when the fleet is not loading) or a
\* marker of the map can be clicked
CanClick(v) ==
    /\ Attached
    /\ \/ ~loading /\ \E k \in 1..Len(vehicles) : vehicles[k] = v
       \/ \E k \in 1..Len(markersLayer.layers) : markersLayer.layers[k].v = v

\* an onSelectVehicle that leaves the detail tab where it is
onSelectVehicleKeepsTab(v) ==
    /\ CanClick(v)
    /\ CanIssue(1)
    /\ selectedVehicle' = v
    /\ mapMode' = "live"
    /\ historyLayer' = clearHistory(historyLayer)
    /\ map' = panTo(map, v)
    /\ currentAddress' = Null
    /\ ecoEvents' = <<>>
    /\ loadingTrips' = TRUE
    /\ trips' = <<>>
    /\ inflight' = Append(inflight, tripsRequest("onSelectVehicle", v))
    /\ delivered' = NoDelivery
    /\ UNCHANGED <<fleetVars, loadingEco, fromDate, toDate, weatherVars, chartVars,
                   activeTab, markersLayer, errors>>

\* onSelectVehicle(v) up to `await fetchTrips(v.Code)`
onSelectVehicle(v) ==
    /\ CanClick(v)
    /\ CanIssue(1)
    /\ selectedVehicle' = v
    /\ mapMode' = "live"
    /\ historyLayer' = clearHistory(historyLayer)
    /\ map' = panTo(map, v)
    /\ currentAddress' = Null
    /\ activeTab' = "trips"
    /\ ecoEvents' = <<>>
    /\ loadingTrips' = TRUE
    /\ trips' = <<>>
    /\ inflight' = Append(inflight, tripsRequest("onSelectVehicle", v))
    /\ delivered' = NoDelivery
    /\ UNCHANGED <<fleetVars, loadingEco, fromDate, toDate, weatherVars, chartVars,
                   markersLayer, errors>>

\* onSelectVehicle resuming with a guard on the latitude alone
onSelectVehicleLatOnly(i, body) ==
    /\ i \in 1..Len(inflight)
    /\ inflight[i].api = "getTrips"
    /\ inflight[i].caller = "onSelectVehicle"
    /\ delivered' = Delivered(inflight[i], TRUE, body)
    /\ trips' = TripsFrom(body)
    /\ loadingTrips' = FALSE
    /\ speedChart' = drawSpeedChart(speedChart,
                        speedCanvasPresent(selectedVehicle, activeTab, FALSE, TripsFrom(body)),
                        TripsFrom(body))
    /\ LET lat == parseFloat(inflight[i].v.Latitude)
           lng == parseFloat(inflight[i].v.Longitude)
       IN  IF ~isNaN(lat)
           THEN /\ loadingWeather' = TRUE
                /\ weather' = Null
                /\ inflight' = Remove(inflight, i)
                                 \o <<weatherRequest(lat, lng), addressRequest(lat, lng)>>
           ELSE /\ inflight' = Remove(inflight, i)
                /\ UNCHANGED weatherVars
    /\ UNCHANGED <<fleetVars, ecoEvents, loadingEco, fromDate, toDate, appVars,
                   ecoChart, mapVars, errors>>

\* onSelectVehicle resumes: fetchTrips stores the response, the speed chart
\* is drawn after the render tick, then weather and address are requested
\* for the coordinates of v.
onSelectVehicleResolved(i, body) ==
    /\ i \in 1..Len(inflight)
    /\ inflight[i].api = "getTrips"
    /\ inflight[i].caller = "onSelectVehicle"
    /\ delivered' = Delivered(inflight[i], TRUE, body)
    /\ trips' = TripsFrom(body)
    /\ loadingTrips' = FALSE
    /\ speedChart' = drawSpeedChart(speedChart,
                        speedCanvasPresent(selectedVehicle, activeTab, FALSE, TripsFrom(body)),
                        TripsFrom(body))
    /\ LET lat == parseFloat(inflight[i].v.Latitude)
           lng == parseFloat(inflight[i].v.Longitude)
       IN  IF ~isNaN(lat) /\ ~isNaN(lng)
           THEN /\ loadingWeather' = TRUE
                /\ weather' = Null
                /\ inflight' = Remove(inflight, i)
                                 \o <<weatherRequest(lat, lng), addressRequest(lat, lng)>>
           ELSE /\ inflight' = Remove(inflight, i)
                /\ UNCHANGED weatherVars
    /\ UNCHANGED <<fleetVars, ecoEvents, loadingEco, fromDate, toDate, appVars,
                   ecoChart, mapVars, errors>>

\* getTrips rejects in onSelectVehicle: `finally` clears loadingTrips, the
\* handler rejects; no chart, no enrichment.
onSelectVehicleRejected(i) ==
    /\ i \in 1..Len(inflight)
    /\ inflight[i].api = "getTrips"
    /\ inflight[i].caller = "onSelectVehicle"
    /\ delivered' = Delivered(inflight[i], FALSE, JsNull)
    /\ loadingTrips' = FALSE
    /\ inflight' = Remove(inflight, i)
    /\ errors' = errors \cup {"onSelectVehicle"}
    /\ UNCHANGED <<fleetVars, trips, ecoEvents, loadingEco, fromDate, toDate,
                   weatherVars, appVars, chartVars, mapVars>>

\* the tabs and the GO button are rendered when a vehicle is selected
DetailShown == Attached /\ selectedVehicle # Null

\* the branch shared by onTabChange and onReload, up to its await
fetchForTab(caller, tab) ==
    IF tab = "trips"
    THEN /\ loadingTrips' = TRUE
         /\ trips' = <<>>
         /\ inflight' = Append(inflight, tripsRequest(caller, selectedVehicle))
         /\ UNCHANGED <<ecoEvents, loadingEco>>
    ELSE /\ loadingEco' = TRUE
         /\ ecoEvents' = <<>>
         /\ inflight' = Append(inflight, ecoRequest(caller, selectedVehicle))
         /\ UNCHANGED <<trips, loadingTrips>>

\* onTabChange(tab) up to its await
onTabChange(tab) ==
    /\ activeTab' = tab
    /\ delivered' = NoDelivery
    /\ IF selectedVehicle = Null
       THEN UNCHANGED <<trips, ecoEvents, loadingTrips, loadingEco, inflight>>
       ELSE CanIssue(1) /\ fetchForTab("onTabChange", tab)
    /\ UNCHANGED <<fleetVars, fromDate, toDate, weatherVars, selectedVehicle,
                   currentAddress, mapMode, chartVars, mapVars, errors>>

\* an onReload that waits until the weather is in
onReloadAfterWeather ==
    /\ selectedVehicle # Null
    /\ ~loadingWeather
    /\ CanIssue(1)
    /\ delivered' = NoDelivery
    /\ fetchForTab("onReload", activeTab)
    /\ UNCHANGED <<fleetVars, fromDate, toDate, weatherVars, appVars, chartVars,
                   mapVars, errors>>

\* an onReload that always fetches the trips
onReloadTrips ==
    /\ selectedVehicle # Null
    /\ CanIssue(1)
    /\ delivered' = NoDelivery
    /\ fetchForTab("onReload", "trips")
    /\ UNCHANGED <<fleetVars, fromDate, toDate, weatherVars, appVars, chartVars,
                   mapVars, errors>>

\* onReload() up to its await
onReload ==
    /\ selectedVehicle # Null
    /\ CanIssue(1)
    /\ delivered' = NoDelivery
    /\ fetchForTab("onReload", activeTab)
    /\ UNCHANGED <<fleetVars, fromDate, toDate, weatherVars, appVars, chartVars,
                   mapVars, errors>>

\* the date inputs of the detail panel: v-model:fromDate / v-model:toDate
\* write the ref, nothing else runs
updateFromDate(date) ==
    /\ DetailShown
    /\ date # fromDate
    /\ fromDate' = date
    /\ delivered' = NoDelivery
    /\ UNCHANGED <<fleetVars, trips, ecoEvents, loadingTrips, loadingEco, toDate,
                   weatherVars, appVars, chartVars, mapVars, inflight, errors>>

updateToDate(date) ==
    /\ DetailShown
    /\ date # toDate
    /\ toDate' = date
    /\ delivered' = NoDelivery
    /\ UNCHANGED <<fleetVars, trips, ecoEvents, loadingTrips, loadingEco, fromDate,
                   weatherVars, appVars, chartVars, mapVars, inflight, errors>>

\* an onTabChange / onReload that draws before the render tick, when the
\* canvas of the new data is not yet there: the draw returns at its guard
tripsResolvedNoTick(i, body) ==
    /\ i \in 1..Len(inflight)
    /\ inflight[i].api = "getTrips"
    /\ inflight[i].caller \in {"onTabChange", "onReload"}
    /\ delivered' = Delivered(inflight[i], TRUE, body)
    /\ trips' = TripsFrom(body)
    /\ loadingTrips' = FALSE
    /\ speedChart' = drawSpeedChart(speedChart,
                        speedCanvasPresent(selectedVehicle, activeTab, loadingTrips, trips),
                        TripsFrom(body))
    /\ inflight' = Remove(inflight, i)
    /\ UNCHANGED <<fleetVars, ecoEvents, loadingEco, fromDate, toDate, weatherVars,
                   appVars, ecoChart, mapVars, errors>>

\* onTabChange / onReload resume with the trips, then draw the speed chart
tripsResolved(i, body) ==
    /\ i \in 1..Len(inflight)
    /\ inflight[i].api = "getTrips"
    /\ inflight[i].caller \in {"onTabChange", "onReload"}
    /\ delivered' = Delivered(inflight[i], TRUE, body)
    /\ trips' = TripsFrom(body)
    /\ loadingTrips' = FALSE
    /\ speedChart' = drawSpeedChart(speedChart,
                        speedCanvasPresent(selectedVehicle, activeTab, FALSE, TripsFrom(body)),
                        TripsFrom(body))
    /\ inflight' = Remove(inflight, i)
    /\ UNCHANGED <<fleetVars, ecoEvents, loadingEco, fromDate, toDate, weatherVars,
                   appVars, ecoChart, mapVars, errors>>

\* a fetchTrips without `finally`
tripsRejectedNoFinally(i) ==
    /\ i \in 1..Len(inflight)
    /\ inflight[i].api = "getTrips"
    /\ inflight[i].caller \in {"onTabChange", "onReload"}
    /\ delivered' = Delivered(inflight[i], FALSE, JsNull)
    /\ inflight' = Remove(inflight, i)
    /\ errors' = errors \cup {inflight[i].caller}
    /\ UNCHANGED <<fleetVars, detailVars, weatherVars, appVars, chartVars, mapVars>>

\* getTrips rejects in onTabChange / onReload: `finally` clears loadingTrips,
\* trips keeps the value it has, the handler rejects
tripsRejected(i) ==
    /\ i \in 1..Len(inflight)
    /\ inflight[i].api = "getTrips"
    /\ inflight[i].caller \in {"onTabChange", "onReload"}
    /\ delivered' = Delivered(inflight[i], FALSE, JsNull)
    /\ loadingTrips' = FALSE
    /\ inflight' = Remove(inflight, i)
    /\ errors' = errors \cup {inflight[i].caller}
    /\ UNCHANGED <<fleetVars, trips, ecoEvents, loadingEco, fromDate, toDate,
                   weatherVars, appVars, chartVars, mapVars>>

\* a fetchEco that takes a non-array answer for a failure
ecoResolvedThrows(i, data) ==
    /\ i \in 1..Len(inflight)
    /\ inflight[i].api = "getEcoDriving"
    /\ delivered' = Delivered(inflight[i], TRUE, data)
    /\ ecoEvents' = EcoFrom(data)
    /\ loadingEco' = FALSE
    /\ ecoChart' = drawEcoChart(ecoChart,
                      ecoCanvasPresent(selectedVehicle, activeTab, FALSE, EcoFrom(data)),
                      EcoFrom(data))
    /\ inflight' = Remove(inflight, i)
    /\ errors' = IF IsArray(data) THEN errors ELSE errors \cup {inflight[i].caller}
    /\ UNCHANGED <<fleetVars, trips, loadingTrips, fromDate, toDate, weatherVars,
                   appVars, speedChart, mapVars>>

\* onTabChange / onReload resume with the eco events, then draw the eco chart
ecoResolved(i, data) ==
    /\ i \in 1..Len(inflight)
    /\ inflight[i].api = "getEcoDriving"
    /\ delivered' = Delivered(inflight[i], TRUE, data)
    /\ ecoEvents' = EcoFrom(data)
    /\ loadingEco' = FALSE
    /\ ecoChart' = drawEcoChart(ecoChart,
                      ecoCanvasPresent(selectedVehicle, activeTab, FALSE, EcoFrom(data)),
                      EcoFrom(data))
    /\ inflight' = Remove(inflight, i)
    /\ UNCHANGED <<fleetVars, trips, loadingTrips, fromDate, toDate, weatherVars,
                   appVars, speedChart, mapVars, errors>>

ecoRejected(i) ==
    /\ i \in 1..Len(inflight)
    /\ inflight[i].api = "getEcoDriving"
    /\ delivered' = Delivered(inflight[i], FALSE, JsNull)
    /\ loadingEco' = FALSE
    /\ inflight' = Remove(inflight, i)
    /\ errors' = errors \cup {inflight[i].caller}
    /\ UNCHANGED <<fleetVars, trips, ecoEvents, loadingTrips, fromDate, toDate,
                   weatherVars, appVars, chartVars, mapVars>>

\* a ROUTE HISTORY button that is enabled with nothing selected
ModeButtonAlways(mode) == Attached
\* the LIVE button is always enabled, ROUTE HISTORY when a vehicle is selected
ModeButtonEnabled(mode) == Attached /\ (mode = "history" => selectedVehicle # Null)

\* onMapMode(mode) up to its await (entering history), or whole (otherwise)
onMapMode(mode) ==
    /\ mapMode' = mode
    /\ delivered' = NoDelivery
    /\ IF mode = "history" /\ selectedVehicle # Null
       THEN /\ CanIssue(1)
            /\ inflight' = Append(inflight, historyRequest(selectedVehicle))
            /\ UNCHANGED <<markersLayer, historyLayer>>
       ELSE /\ historyLayer' = clearHistory(historyLayer)
            /\ markersLayer' = updateMarkers(markersLayer, vehicles)
            /\ UNCHANGED inflight
    /\ UNCHANGED <<fleetVars, detailVars, weatherVars, selectedVehicle, currentAddress,
                   activeTab, chartVars, map, errors>>

\* what map.fitBounds does on a removed map is the map engine's business:
\* it returns or it throws out of onMapMode
drawHistoryErrors(view, positions) ==
    IF view # Null /\ view.op = "remove" /\ ~NoPositions(positions)
    THEN {errors, errors \cup {"onMapMode"}} ELSE {errors}

\* the FIT ALL button: fitAll(vehicles)
fitAll ==
    /\ Attached
    /\ map' = fitAllView(map, vehicles)
    /\ delivered' = NoDelivery
    /\ UNCHANGED <<fleetVars, detailVars, weatherVars, appVars, chartVars,
                   markersLayer, historyLayer, inflight, errors>>

\* a click on a row of the trip list: drawTripPins(trip)
TripRowShown(trip) ==
    /\ DetailShown
    /\ activeTab = "trips"
    /\ ~loadingTrips
    /\ \E k \in 1..Len(trips) : trips[k] = trip
drawTripPins(trip) ==
    /\ TripRowShown(trip)
    /\ historyLayer' = drawTripPinsLayer(historyLayer, trip)
    /\ map' = drawTripPinsView(map, trip)
    /\ delivered' = NoDelivery
    /\ UNCHANGED <<fleetVars, detailVars, weatherVars, appVars, chartVars,
                   markersLayer, inflight, errors>>

\* a fetchHistory that stores what it fetched in `trips`
onMapModeResolvedStores(i, data) ==
    /\ i \in 1..Len(inflight)
    /\ inflight[i].api = "getVehicleHistory"
    /\ delivered' = Delivered(inflight[i], TRUE, data)
    /\ historyLayer' = drawHistoryLayer(historyLayer, FirstPositions(data))
    /\ markersLayer' = drawHistoryMarkers(historyLayer, markersLayer)
    /\ map' = drawHistoryView(historyLayer, map, FirstPositions(data))
    /\ inflight' = Remove(inflight, i)
    /\ trips' = <<>>
    /\ UNCHANGED <<fleetVars, ecoEvents, loadingTrips, loadingEco, fromDate, toDate,
                   weatherVars, appVars, chartVars, errors>>

\* an onMapMode that fails on an answer without position samples
onMapModeResolvedThrows(i, data) ==
    /\ i \in 1..Len(inflight)
    /\ inflight[i].api = "getVehicleHistory"
    /\ delivered' = Delivered(inflight[i], TRUE, data)
    /\ historyLayer' = drawHistoryLayer(historyLayer, FirstPositions(data))
    /\ markersLayer' = drawHistoryMarkers(historyLayer, markersLayer)
    /\ map' = drawHistoryView(historyLayer, map, FirstPositions(data))
    /\ inflight' = Remove(inflight, i)
    /\ errors' = IF NoPositions(FirstPositions(data))
                 THEN errors \cup {"onMapMode"} ELSE errors
    /\ UNCHANGED <<fleetVars, detailVars, weatherVars, appVars, chartVars>>

\* onMapMode resumes with the history: drawHistory(data?.[0]?.Positions)
onMapModeResolved(i, data) ==
    /\ i \in 1..Len(inflight)
    /\ inflight[i].api = "getVehicleHistory"
    /\ delivered' = Delivered(inflight[i], TRUE, data)
    /\ historyLayer' = drawHistoryLayer(historyLayer, FirstPositions(data))
    /\ markersLayer' = drawHistoryMarkers(historyLayer, markersLayer)
    /\ map' = drawHistoryView(historyLayer, map, FirstPositions(data))
    /\ inflight' = Remove(inflight, i)
    /\ errors' \in drawHistoryErrors(map, FirstPositions(data))
    /\ UNCHANGED <<fleetVars, detailVars, weatherVars, appVars, chartVars>>

onMapModeRejected(i) ==
    /\ i \in 1..Len(inflight)
    /\ inflight[i].api = "getVehicleHistory"
    /\ delivered' = Delivered(inflight[i], FALSE, JsNull)
    /\ inflight' = Remove(inflight, i)
    /\ errors' = errors \cup {"onMapMode"}
    /\ UNCHANGED <<fleetVars, detailVars, weatherVars, appVars, chartVars, mapVars>>

(***************************************************************************)
(* The fleet coordinator with overlapping refreshes: mounting, the REFRESH *)
(* button and the answers of the telemetry provider, which may arrive in   *)
(* any order.                                                              *)
(***************************************************************************)
SomeFleets == {<<>>, Fleet1, Fleet2}

NextFleet ==
    \/ onMounted
    \/ refresh
    \/ \E i \in 1..MaxInFlight, groups \in GroupLists : initResolved(i, groups)
    \/ \E i \in 1..MaxInFlight : initRejected(i)
    \/ \E i \in 1..MaxInFlight, list \in SomeFleets, now \in Times :
           refreshResolved(i, list, now)
    \/ \E i \in 1..MaxInFlight : refreshRejected(i)

SpecFleet == Init /\ [][NextFleet]_vars

\* every request eventually resolves or rejects
FairFleet ==
    /\ SpecFleet
    /\ WF_vars(\/ \E i \in 1..MaxInFlight, groups \in GroupLists : initResolved(i, groups)
               \/ \E i \in 1..MaxInFlight : initRejected(i))
    /\ WF_vars(\/ \E i \in 1..MaxInFlight, list \in SomeFleets, now \in Times :
                      refreshResolved(i, list, now)
               \/ \E i \in 1..MaxInFlight : refreshRejected(i))

(***************************************************************************)
(* The fleet coordinator over every vehicle list of at most MaxVehicles    *)
(* vehicles, the REFRESH button being pressed while nothing is pending.    *)
(***************************************************************************)
NextStats ==
    \/ onMounted
    \/ inflight = <<>> /\ refresh
    \/ \E groups \in GroupLists : initResolved(1, groups)
    \/ \E list \in FleetLists, now \in Times : refreshResolved(1, list, now)
    \/ refreshRejected(1)

SpecStats == Init /\ [][NextStats]_vars

(***************************************************************************)
(* The orchestrator: the fleet is loaded once, then the user selects       *)
(* vehicles, switches tabs, reloads and toggles the map mode while the     *)
(* providers answer in any order.                                          *)
(***************************************************************************)
\* what the telemetry provider may answer to a request
TripBodies(r) == {JsArray(TripsOf(r.code, r.from, r.to)), JsArray(<<>>)}
EcoBodies(r)  == {JsArray(EcoOf(r.code, r.from, r.to)), JsObject}
HistoryBodies(r) == {JsArray(HistoryOf(r.code)), JsArray(<<>>)}
WeatherCodes == {3}
\* the fleet the provider returns: a vehicle with a position and one without
TheFleet == <<VehA, VehC>>

Next ==
    \/ onMounted
    \/ \E i \in 1..Len(inflight) : initResolved(i, <<Group("G1")>>)
    \/ \E i \in 1..Len(inflight) : refreshResolved(i, TheFleet, "10:00:00")
    \/ \E k \in 1..Len(vehicles) : onSelectVehicle(vehicles[k])
    \/ \E i \in 1..Len(inflight) : \E body \in TripBodies(inflight[i]) :
           onSelectVehicleResolved(i, body)
    \/ \E i \in 1..Len(inflight) : onSelectVehicleRejected(i)
    \/ \E tab \in {"trips", "eco"} : DetailShown /\ onTabChange(tab)
    \/ DetailShown /\ onReload
    \/ \E i \in 1..Len(inflight) : \E body \in TripBodies(inflight[i]) :
           tripsResolved(i, body)
    \/ \E i \in 1..Len(inflight) : \E data \in EcoBodies(inflight[i]) :
           ecoResolved(i, data)
    \/ \E mode \in {"live", "history"} : ModeButtonEnabled(mode) /\ onMapMode(mode)
    \/ \E i \in 1..Len(inflight) : \E data \in HistoryBodies(inflight[i]) :
           onMapModeResolved(i, data)
    \/ \E i \in 1..Len(inflight) : \E code \in WeatherCodes : fetchWeatherResolved(i, code)
    \/ \E i \in 1..Len(inflight) : fetchWeatherRejected(i)
    \/ \E i \in 1..Len(inflight) : fetchAddressResolved(i, TRUE, TRUE)
    \/ \E i \in 1..Len(inflight) : fetchAddressRejected(i)

Spec == Init /\ [][Next]_vars

(***************************************************************************)
(* Properties of the fleet coordinator.                                    *)
(***************************************************************************)
\* the requests of one api among the pending ones, in issue order
Pending(q, api) == SelectSeq(q, LAMBDA r : r.api = api)

\* this step delivers the answer (resolve or reject) to a request of `api`
Delivers(api) ==
    /\ delivered'.req # Null
    /\ delivered'.req.api = api
    /\ Len(Pending(inflight', api)) = Len(Pending(inflight, api)) - 1

\* C6: whenever a refresh() call completes, its request having succeeded
\* or failed, loading is false; and when every request is eventually
\* answered, a set loading flag is eventually cleared.
C6_LoadingCleared ==
    /\ [][Delivers("getVehicles") => loading' = FALSE]_vars
    /\ (loading ~> ~loading)

C6_Witness ==
    /\ delivered.req # Null
    /\ delivered.req.api = "getVehicles"
    /\ ~delivered.ok
    /\ ~loading

\* C7: a failed refresh leaves vehicles and lastRefresh as they were and
\* hands the error to its caller; vehicles and lastRefresh change only in a
\* successful refresh, which replaces the collection by the response.
C7_FailedRefreshRetains ==
    [][/\ (Delivers("getVehicles") /\ ~delivered'.ok) =>
              /\ vehicles' = vehicles
              /\ lastRefresh' = lastRefresh
              /\ delivered'.req.caller \in errors'
       /\ (vehicles' # vehicles \/ lastRefresh' # lastRefresh) =>
              /\ Delivers("getVehicles")
              /\ delivered'.ok
       /\ (Delivers("getVehicles") /\ delivered'.ok) =>
              /\ vehicles' = delivered'.body.items
              /\ errors' = errors]_vars

C7_Witness ==
    /\ delivered.req # Null
    /\ delivered.req.api = "getVehicles"
    /\ ~delivered.ok
    /\ vehicles = Fleet1
    /\ lastRefresh # ""
    /\ delivered.req.caller \in errors

\* C8: movingCount + idleCount = vehicles.length, both counts being
\* non-negative integers, for every collection a refresh can install.
C8_CountsPartition ==
    /\ movingCount + idleCount = Len(vehicles)
    /\ movingCount \in Nat
    /\ idleCount \in Nat

C8_Witness ==
    /\ Len(vehicles) = 3
    /\ movingCount = 2
    /\ idleCount = 1

RECURSIVE SumSpeedAt(_)
SumSpeedAt(S) ==
    IF S = {} THEN 0
    ELSE LET i == CHOOSE j \in S : TRUE
         IN  vehicles[i].Speed + SumSpeedAt(S \ {i})

MovingAt == {i \in DOMAIN vehicles : vehicles[i].Speed > 0}

\* C9: avgSpeed is 0 when no vehicle has Speed > 0, and otherwise the mean
\* speed of the vehicles with Speed > 0 rounded to the nearest integer
\* (a half rounds up): speeds 0, 45, 120 give 2 moving, 1 idle, average 83.
C9_AvgSpeedIsRoundedMean ==
    LET n == Cardinality(MovingAt)
        s == SumSpeedAt(MovingAt)
    IN  /\ n = 0 => avgSpeed = 0
        /\ n > 0 => /\ 2 * n * avgSpeed - n <= 2 * s
                    /\ 2 * s < 2 * n * avgSpeed + n
        /\ [i \in DOMAIN vehicles |-> vehicles[i].Speed] = <<0, 45, 120>> =>
               /\ movingCount = 2
               /\ idleCount = 1
               /\ avgSpeed = 83

C9_Witness ==
    /\ [i \in DOMAIN vehicles |-> vehicles[i].Speed] = <<0, 45, 120>>
    /\ avgSpeed = 83

\* C10: bootstrap with an empty group list issues no vehicle-list request,
\* leaves groupCode, vehicles, loading and lastRefresh alone (at their
\* initial values when no refresh was requested meanwhile) and surfaces no
\* error; with a non-empty list it sets groupCode to the first group's
\* code and performs exactly one refresh for that group.
C10_Bootstrap ==
    [][(Delivers("getGroups") /\ delivered'.ok) =>
          LET groups == delivered'.body.items
          IN  IF Len(groups) = 0
              THEN /\ Pending(inflight', "getVehicles") = Pending(inflight, "getVehicles")
                   /\ UNCHANGED fleetVars
                   /\ errors' = errors
                   /\ (Len(inflight) = 1 /\ errors = {} /\ lastRefresh = "") =>
                          /\ groupCode' = ""
                          /\ vehicles' = <<>>
                          /\ loading' = FALSE
                          /\ inflight' = <<>>
              ELSE /\ groupCode' = groups[1].Code
                   /\ loading' = TRUE
                   /\ Pending(inflight', "getVehicles") =
                          Append(Pending(inflight, "getVehicles"),
                                 refreshRequest("init", groups[1].Code))
                   /\ UNCHANGED <<vehicles, lastRefresh, errors>>]_vars

C10_Witness ==
    /\ delivered.req # Null
    /\ delivered.req.api = "getGroups"
    /\ delivered.ok
    /\ delivered.body.items = <<>>
    /\ groupCode = ""
    /\ vehicles = <<>>
    /\ ~loading
    /\ lastRefresh = ""
    /\ inflight = <<>>
    /\ errors = {}

(***************************************************************************)
(* Properties of the orchestrator: whose data the views show.              *)
(***************************************************************************)
AllCodes == {"A", "B", "C"}

NonePending(api) == Len(Pending(inflight, api)) = 0

\* C1: A selected, then B before A's trips arrived, A's response arriving
\* last: once both have resolved, trips holds B's trips, never A's.  As an
\* invariant: with no trips request pending and none rejected, every trip
\* in `trips` is a trip of the selected vehicle.
C1_TripsOfSelection ==
    (selectedVehicle # Null /\ NonePending("getTrips") /\ errors = {}) =>
        \A k \in 1..Len(trips) : trips[k].Vehicle = selectedVehicle.Code

\* the coordinates fetchWeather / fetchAddress get for a vehicle
LatOf(v) == parseFloat(v.Latitude)
LngOf(v) == parseFloat(v.Longitude)

\* C2: a non-null weather snapshot and a non-null currentAddress were
\* computed from the coordinates of the currently selected vehicle.
C2_EnrichmentOfSelection ==
    /\ weather # Null =>
          /\ selectedVehicle # Null
          /\ \E code \in WeatherCodes :
                weather = Snapshot(CurrentWeather(LatOf(selectedVehicle),
                                                  LngOf(selectedVehicle), code))
    /\ currentAddress # Null =>
          /\ selectedVehicle # Null
          /\ currentAddress.lat = LatOf(selectedVehicle)
          /\ currentAddress.lng = LngOf(selectedVehicle)

\* C3: when the selected vehicle changes, trips, eco events, the route
\* layer, the weather snapshot and the address of the previous vehicle are
\* all cleared by the time the first request for the new vehicle is issued
\* (the selection step issues it).
C3_ClearedOnSelection ==
    [][selectedVehicle' # selectedVehicle =>
          /\ trips' = <<>>
          /\ ecoEvents' = <<>>
          /\ historyLayer'.layers = <<>>
          /\ weather' = Null
          /\ currentAddress' = Null]_vars

\* C4: ecoEvents holds no event of a vehicle other than the selected one.
C4_EcoOfSelection ==
    selectedVehicle # Null =>
        \A k \in 1..Len(ecoEvents) : ecoEvents[k].Vehicle = selectedVehicle.Code

\* C5: the route layer shows no history route of a vehicle other than the
\* selected one.
C5_RouteOfSelection ==
    \A code \in AllCodes :
        (historyLayer # Null /\ historyLayer.layers = RouteLayers(PositionsOf(code))) =>
            (selectedVehicle # Null /\ selectedVehicle.Code = code)

(***************************************************************************)
(* The detail coordinator: one selected vehicle, the tabs, the date inputs, *)
(* the GO button and the history toggle, with every answer the telemetry   *)
(* provider can give, failures included.  Requests overlap: neither the    *)
(* tabs nor the GO button are disabled while a request is pending.         *)
(***************************************************************************)
\* a fleet of one vehicle without a position: no enrichment is requested
DetailFleet == <<VehC>>

\* getTrips answers with the trips, an empty list, or null
TripAnswers(r) == TripBodies(r) \cup {JsNull}
\* getEcoDriving answers with the events, an empty list, or a non-array
EcoAnswers(r) == EcoBodies(r) \cup {JsArray(<<>>), JsNull, JsString, JsNumber}

NextDetail ==
    \/ onMounted
    \/ \E i \in 1..Len(inflight) : initResolved(i, <<Group("G1")>>)
    \/ \E i \in 1..Len(inflight) : refreshResolved(i, DetailFleet, "10:00:00")
    \/ \E k \in 1..Len(vehicles) : onSelectVehicle(vehicles[k])
    \/ \E i \in 1..Len(inflight) : \E body \in TripAnswers(inflight[i]) :
           onSelectVehicleResolved(i, body)
    \/ \E i \in 1..Len(inflight) : onSelectVehicleRejected(i)
    \/ \E tab \in {"trips", "eco"} : DetailShown /\ onTabChange(tab)
    \/ DetailShown /\ onReload
    \/ \E i \in 1..Len(inflight) : \E body \in TripAnswers(inflight[i]) :
           tripsResolved(i, body)
    \/ \E i \in 1..Len(inflight) : tripsRejected(i)
    \/ \E i \in 1..Len(inflight) : \E data \in EcoAnswers(inflight[i]) :
           ecoResolved(i, data)
    \/ \E i \in 1..Len(inflight) : ecoRejected(i)

SpecDetail == Init /\ [][NextDetail]_vars

(***************************************************************************)
(* The date range: the date inputs, and every handler that issues a        *)
(* request carrying the range (selection, tabs, GO, the history toggle).   *)
(* The provider answers with the data it holds for the requested window.   *)
(* The user starts a request when none is pending, and may change the      *)
(* dates at any time, also while the answer is on its way.                 *)
(***************************************************************************)
NextDates ==
    \/ onMounted
    \/ \E i \in 1..Len(inflight) : initResolved(i, <<Group("G1")>>)
    \/ \E i \in 1..Len(inflight) : refreshResolved(i, DetailFleet, "10:00:00")
    \/ \E k \in 1..Len(vehicles) : inflight = <<>> /\ onSelectVehicle(vehicles[k])
    \/ \E i \in 1..Len(inflight) :
           onSelectVehicleResolved(i, JsArray(TripsOf(inflight[i].code, inflight[i].from, inflight[i].to)))
    \/ \E tab \in {"trips", "eco"} : inflight = <<>> /\ DetailShown /\ onTabChange(tab)
    \/ inflight = <<>> /\ DetailShown /\ onReload
    \/ \E date \in Dates : updateFromDate(date)
    \/ \E date \in Dates : updateToDate(date)
    \/ \E i \in 1..Len(inflight) :
           tripsResolved(i, JsArray(TripsOf(inflight[i].code, inflight[i].from, inflight[i].to)))
    \/ \E i \in 1..Len(inflight) :
           ecoResolved(i, JsArray(EcoOf(inflight[i].code, inflight[i].from, inflight[i].to)))
    \/ inflight = <<>> /\ ModeButtonEnabled("history") /\ onMapMode("history")
    \/ \E i \in 1..Len(inflight) : onMapModeResolved(i, JsArray(HistoryOf(inflight[i].code)))
    \/ \E i \in 1..Len(inflight) : onMapModeRejected(i)

SpecDates == Init /\ [][NextDates]_vars

\* this step issues a request to `api`
Issues(api) == Len(Pending(inflight', api)) > Len(Pending(inflight, api))
\* the request of `api` issued last
LastIssued(q, api) == Pending(q, api)[Len(Pending(q, api))]

\* C11: fetchTrips empties trips and sets loadingTrips before its request is
\* issued; a successful answer becomes trips exactly (the empty list for a
\* null or empty answer); loadingTrips is false once the call completes,
\* whatever the outcome.
C11_FetchTrips ==
    [][/\ Issues("getTrips") => (trips' = <<>> /\ loadingTrips' = TRUE)
       /\ Delivers("getTrips") => loadingTrips' = FALSE
       /\ (Delivers("getTrips") /\ delivered'.ok) =>
              /\ trips' = delivered'.body.items
              /\ delivered'.body = JsNull => trips' = <<>>]_vars

C11_Witness ==
    /\ delivered.req # Null
    /\ delivered.req.api = "getTrips"
    /\ delivered.ok
    /\ delivered.body = JsNull
    /\ trips = <<>>
    /\ ~loadingTrips

\* C12: after a trip or eco fetch fails, its loading flag is false and its
\* dataset is empty.
C12_FailedFetchLeavesEmpty ==
    [][/\ (Delivers("getTrips") /\ ~delivered'.ok) =>
              (loadingTrips' = FALSE /\ trips' = <<>>)
       /\ (Delivers("getEcoDriving") /\ ~delivered'.ok) =>
              (loadingEco' = FALSE /\ ecoEvents' = <<>>)]_vars

\* C13: fetchEco has the shape of fetchTrips, and an answer that is not an
\* array (null, object, string, number) leaves ecoEvents empty and raises
\* no error.
C13_FetchEco ==
    [][/\ Issues("getEcoDriving") => (ecoEvents' = <<>> /\ loadingEco' = TRUE)
       /\ Delivers("getEcoDriving") => loadingEco' = FALSE
       /\ (Delivers("getEcoDriving") /\ delivered'.ok /\ IsArray(delivered'.body)) =>
              ecoEvents' = delivered'.body.items
       /\ (Delivers("getEcoDriving") /\ delivered'.ok /\ ~IsArray(delivered'.body)) =>
              (ecoEvents' = <<>> /\ errors' = errors)]_vars

C13_Witness ==
    /\ delivered.req # Null
    /\ delivered.req.api = "getEcoDriving"
    /\ delivered.ok
    /\ delivered.body = JsObject
    /\ ecoEvents = <<>>
    /\ ~loadingEco
    /\ errors = {}

\* C14: fetchHistory hands the provider's answer to its caller (which draws
\* it) and a failure to its caller too; issuing and completing it leave
\* trips, ecoEvents, loadingTrips, loadingEco, fromDate and toDate alone.
C14_FetchHistoryFrame ==
    [][/\ (Issues("getVehicleHistory") \/ Delivers("getVehicleHistory")) =>
              UNCHANGED <<trips, ecoEvents, loadingTrips, loadingEco, fromDate, toDate>>
       /\ (Delivers("getVehicleHistory") /\ delivered'.ok) =>
              historyLayer' = drawHistoryLayer(historyLayer, FirstPositions(delivered'.body))
       /\ (Delivers("getVehicleHistory") /\ ~delivered'.ok) =>
              delivered'.req.caller \in errors']_vars

C14_Witness ==
    /\ delivered.req # Null
    /\ delivered.req.api = "getVehicleHistory"
    /\ delivered.ok
    /\ Len(trips) > 0
    /\ historyLayer.layers # <<>>

EnrichFleet == <<VehA, VehB>>

\* the provider's weather_code: a known code, an unknown one, none
WeatherAnswers == {3, 42, Absent}

NextEnrich ==
    \/ onMounted
    \/ \E i \in 1..Len(inflight) : initResolved(i, <<Group("G1")>>)
    \/ \E i \in 1..Len(inflight) : refreshResolved(i, EnrichFleet, "10:00:00")
    \/ \E k \in 1..Len(vehicles) : onSelectVehicle(vehicles[k])
    \/ \E i \in 1..Len(inflight) :
           onSelectVehicleResolved(i, JsArray(TripsOf(inflight[i].code, inflight[i].from, inflight[i].to)))
    \/ \E i \in 1..Len(inflight) : \E code \in WeatherAnswers : fetchWeatherResolved(i, code)
    \/ \E i \in 1..Len(inflight) : fetchWeatherRejected(i)
    \/ \E i \in 1..Len(inflight) : \E hasRoadCity, hasName \in BOOLEAN :
           fetchAddressResolved(i, hasRoadCity, hasName)
    \/ \E i \in 1..Len(inflight) : fetchAddressRejected(i)

SpecEnrich == Init /\ [][NextEnrich]_vars

\* C16: when the weather request fails, weather remains null, loadingWeather
\* ends false and no exception reaches the caller.
C16_FailedWeatherLeavesNull ==
    [][(Delivers("getCurrentWeather") /\ ~delivered'.ok) =>
           /\ weather' = Null
           /\ loadingWeather' = FALSE
           /\ errors' = errors]_vars

(***************************************************************************)
(* The map: fleet refreshes, selections, the LIVE / ROUTE HISTORY toggle   *)
(* and the history answers, which may arrive late, be empty or fail.       *)
(***************************************************************************)
\* the fleets the provider returns, one refresh after the other: vehicles
\* appear and disappear
MapFleets == {TheFleet, <<>>}

\* getVehicleHistory answers: a batch of samples, no batch, a batch without
\* Positions, a batch with no samples, null
HistoryAnswers(r) ==
    HistoryBodies(r) \cup {JsArray(<<[Positions |-> JsNull]>>),
                           JsArray(<<[Positions |-> JsArray(<<>>)]>>),
                           JsNull}

NextMap ==
    \/ onMounted
    \/ \E i \in 1..Len(inflight) : initResolved(i, <<Group("G1")>>)
    \/ refresh
    \/ \E i \in 1..Len(inflight) : \E list \in MapFleets : refreshResolved(i, list, "10:00:00")
    \/ \E k \in 1..Len(vehicles) : onSelectVehicle(vehicles[k])
    \/ \E i \in 1..Len(inflight) :
           onSelectVehicleResolved(i, JsArray(TripsOf(inflight[i].code, inflight[i].from, inflight[i].to)))
    \/ \E i \in 1..Len(inflight) : fetchWeatherResolved(i, 3)
    \/ \E i \in 1..Len(inflight) : fetchAddressResolved(i, TRUE, TRUE)
    \/ \E mode \in {"live", "history"} : ModeButtonEnabled(mode) /\ onMapMode(mode)
    \/ \E i \in 1..Len(inflight) : \E data \in HistoryAnswers(inflight[i]) :
           onMapModeResolved(i, data)
    \/ \E i \in 1..Len(inflight) : onMapModeRejected(i)

SpecMap == Init /\ [][NextMap]_vars

\* the position lists drawHistory may be given
PositionInputs ==
    {JsNull, JsArray(<<>>), JsArray(<<Sample("50.07", "14.43", 50)>>)}
        \cup {JsArray(PositionsOf(code)) : code \in AllCodes}

\* C17 (as amended): drawHistory(positions) followed by clearHistory() leaves
\* the route layer empty and the marker layer empty, for every position list
\* and every prior content of the two layers: drawHistory removes the
\* vehicle markers and clearHistory does not put them back.
C17_RoundTripEmptiesBoth ==
    map # Null =>
        \A positions \in PositionInputs :
            /\ clearHistory(drawHistoryLayer(historyLayer, positions)).layers = <<>>
            /\ drawHistoryMarkers(historyLayer, markersLayer).layers = <<>>

\* drawHistory then clearHistory (by a click on a vehicle row) have run:
\* live mode, the route gone, and no marker although vehicles have positions
C17_Witness ==
    /\ map # Null
    /\ mapMode = "live"
    /\ selectedVehicle # Null
    /\ MarkersOf(vehicles) # <<>>
    /\ historyLayer.layers = <<>>
    /\ markersLayer.layers = <<>>

\* C17 (as stated): drawHistory(positions) followed by clearHistory() leaves
\* the route layer empty and the number of vehicle markers what it was
\* before drawHistory.
C17_RoundTripKeepsMarkers ==
    map # Null =>
        \A positions \in PositionInputs :
            /\ clearHistory(drawHistoryLayer(historyLayer, positions)).layers = <<>>
            /\ Len(drawHistoryMarkers(historyLayer, markersLayer).layers)
                   = Len(markersLayer.layers)

\* a history answer without position samples
NoSamples(data) == NoPositions(FirstPositions(data))

\* C18: a history answer without position samples (empty list, batch
\* without Positions, batch without samples, null) leaves the route layer
\* without markers and polylines and raises no error.
C18_EmptyHistory ==
    [][(Delivers("getVehicleHistory") /\ delivered'.ok /\ NoSamples(delivered'.body)) =>
           /\ historyLayer'.layers = <<>>
           /\ errors' = errors]_vars

C18_Witness ==
    /\ delivered.req # Null
    /\ delivered.req.api = "getVehicleHistory"
    /\ delivered.ok
    /\ delivered.body = JsArray(<<[Positions |-> JsNull]>>)
    /\ mapMode = "history"
    /\ historyLayer.layers = <<>>
    /\ errors = {}

\* the live marker set of a vehicle collection: one marker per vehicle with
\* a known last position
KnownPosition(v) ==
    ~isNaN(parseFloat(v.Latitude)) /\ ~isNaN(parseFloat(v.Longitude))
MarkersFor(layer, v) == {j \in 1..Len(layer.layers) : layer.layers[j].v = v}
LiveMarkerSet(layer, vs) ==
    /\ \A k \in 1..Len(vs) :
           Cardinality(MarkersFor(layer, vs[k])) = IF KnownPosition(vs[k]) THEN 1 ELSE 0
    /\ \A j \in 1..Len(layer.layers) :
           \E k \in 1..Len(vs) : layer.layers[j].v = vs[k]

\* C19: the transition from history to live empties the route layer and
\* re-renders the marker layer from the current vehicle collection.
C19_HistoryToLive ==
    [][(mapMode = "history" /\ mapMode' = "live") =>
           /\ historyLayer'.layers = <<>>
           /\ LiveMarkerSet(markersLayer', vehicles')]_vars

\* C20: whenever the map mode is live, after the first fleet load, the
\* marker layer holds exactly one marker per vehicle of the current
\* collection that has a known last position, and none for the others.
C20_LiveMarkers ==
    (map # Null /\ mapMode = "live" /\ lastRefresh # "") =>
        LiveMarkerSet(markersLayer, vehicles)

\* a fetched route is on the route layer
RouteDrawn ==
    \E code \in AllCodes : historyLayer.layers = RouteLayers(PositionsOf(code))

\* C21: in history mode, once the history is drawn, the marker layer is
\* empty and stays empty until the mode leaves history, whatever fleet
\* refreshes happen meanwhile.
C21_HistoryHidesMarkers ==
    (map # Null /\ mapMode = "history" /\ RouteDrawn) => markersLayer.layers = <<>>

(***************************************************************************)
(* The events of the view orchestrator, one at a time: a vehicle is        *)
(* selected, the mode is toggled, a tab is switched, GO is pressed.  The   *)
(* tab and reload events are taken as the handlers receive them, also when *)
(* no vehicle is selected.  The next event comes when the answers to the   *)
(* previous one are in.                                                    *)
(***************************************************************************)
NextEvents ==
    \/ onMounted
    \/ \E i \in 1..Len(inflight) : initResolved(i, <<Group("G1")>>)
    \/ \E i \in 1..Len(inflight) : refreshResolved(i, TheFleet, "10:00:00")
    \/ \E k \in 1..Len(vehicles) : inflight = <<>> /\ onSelectVehicle(vehicles[k])
    \/ \E i \in 1..Len(inflight) :
           onSelectVehicleResolved(i, JsArray(TripsOf(inflight[i].code, inflight[i].from, inflight[i].to)))
    \/ \E i \in 1..Len(inflight) : fetchWeatherResolved(i, 3)
    \/ \E i \in 1..Len(inflight) : fetchAddressResolved(i, TRUE, TRUE)
    \/ \E tab \in {"trips", "eco"} : inflight = <<>> /\ Attached /\ onTabChange(tab)
    \/ inflight = <<>> /\ Attached /\ onReload
    \/ \E i \in 1..Len(inflight) :
           tripsResolved(i, JsArray(TripsOf(inflight[i].code, inflight[i].from, inflight[i].to)))
    \/ \E i \in 1..Len(inflight) :
           ecoResolved(i, JsArray(EcoOf(inflight[i].code, inflight[i].from, inflight[i].to)))
    \/ \E mode \in {"live", "history"} :
           inflight = <<>> /\ ModeButtonEnabled(mode) /\ onMapMode(mode)
    \/ \E i \in 1..Len(inflight) : onMapModeResolved(i, JsArray(HistoryOf(inflight[i].code)))

SpecEvents == Init /\ [][NextEvents]_vars

\* this step is the start of `caller`, issuing a request to `api`
IssuedBy(caller, api) ==
    Issues(api) /\ LastIssued(inflight', api).caller = caller

\* C22: right after a vehicle-selected event for v, before its trips arrive,
\* the selection is v, the mode is live, the route layer is empty, the
\* address is null, the tab is trips, trips and ecoEvents are empty, and
\* exactly one request, a trips request for v, has been issued.
C22_AfterSelection ==
    [][IssuedBy("onSelectVehicle", "getTrips") =>
           /\ selectedVehicle' # Null
           /\ LastIssued(inflight', "getTrips").code = selectedVehicle'.Code
           /\ Len(inflight') = Len(inflight) + 1
           /\ mapMode' = "live"
           /\ historyLayer'.layers = <<>>
           /\ currentAddress' = Null
           /\ activeTab' = "trips"
           /\ trips' = <<>>
           /\ ecoEvents' = <<>>]_vars

\* a vehicle has just been selected while the eco data, the address and the
\* route of the previous selection were shown
C22_Witness ==
    /\ Len(inflight) = 1
    /\ inflight[1].api = "getTrips"
    /\ inflight[1].caller = "onSelectVehicle"
    /\ selectedVehicle # Null
    /\ inflight[1].code = selectedVehicle.Code
    /\ weather # Null
    /\ ecoChart # Null
    /\ activeTab = "trips"
    /\ historyLayer.layers = <<>>

\* the api of a tab
ApiOfTab(tab) == IF tab = "trips" THEN "getTrips" ELSE "getEcoDriving"
OtherApi(api) == IF api = "getTrips" THEN "getEcoDriving" ELSE "getTrips"

C24_Reload ==
    [][/\ \A api \in {"getTrips", "getEcoDriving"} :
              IssuedBy("onReload", api) =>
                  /\ api = ApiOfTab(activeTab)
                  /\ ~Issues(OtherApi(api))
                  /\ Len(inflight') = Len(inflight) + 1
                  /\ selectedVehicle # Null
                  /\ LastIssued(inflight', api).code = selectedVehicle.Code
       /\ selectedVehicle = Null =>
              (~Issues("getTrips") \/ IssuedBy("onSelectVehicle", "getTrips"))
              /\ ~Issues("getEcoDriving")]_vars

C24_Witness ==
    /\ activeTab = "eco"
    /\ selectedVehicle # Null
    /\ Len(inflight) = 1
    /\ inflight[1].api = "getEcoDriving"
    /\ inflight[1].caller = "onReload"
    /\ inflight[1].code = selectedVehicle.Code
    /\ loadingEco


(***************************************************************************)
(* The life of the map: it is created when the component mounts and        *)
(* removed when the component unmounts.  Unmounting stops the watcher on   *)
(* `vehicles` and takes the buttons away; requests in flight are not       *)
(* cancelled, and the handlers awaiting them resume when they are answered.*)
(***************************************************************************)
onUnmounted ==
    /\ Attached
    /\ map' = remove(map)
    /\ delivered' = NoDelivery
    /\ UNCHANGED <<fleetVars, detailVars, weatherVars, appVars, chartVars,
                   markersLayer, historyLayer, inflight, errors>>

NextLife ==
    \/ onMounted
    \/ onUnmounted
    \/ \E i \in 1..Len(inflight) : initResolved(i, <<Group("G1")>>)
    \/ refresh
    \/ \E i \in 1..Len(inflight) : refreshResolved(i, TheFleet, "10:00:00")
    \/ \E k \in 1..Len(vehicles) : inflight = <<>> /\ onSelectVehicle(vehicles[k])
    \/ \E i \in 1..Len(inflight) :
           onSelectVehicleResolved(i, JsArray(TripsOf(inflight[i].code, inflight[i].from, inflight[i].to)))
    \/ \E i \in 1..Len(inflight) : fetchWeatherResolved(i, 3)
    \/ \E i \in 1..Len(inflight) : fetchAddressResolved(i, TRUE, TRUE)
    \/ \E mode \in {"live", "history"} : ModeButtonEnabled(mode) /\ onMapMode(mode)
    \/ \E i \in 1..Len(inflight) : onMapModeResolved(i, JsArray(HistoryOf(inflight[i].code)))

SpecLife == Init /\ [][NextLife]_vars

\* C25: the map is created once, when the component mounts, and torn down
\* once, when it unmounts; after the teardown no operation of the map
\* engine acts on the map or its layers, a history draw for an answer that
\* arrives after the unmount included.
C25_Lifecycle ==
    [][/\ (map = Null /\ map' # Null) =>
              /\ map'.op = "setView"
              /\ markersLayer' = LayerGroup(<<>>)
              /\ historyLayer' = LayerGroup(<<>>)
       /\ map # Null => map' # Null
       /\ Unmounted => UNCHANGED <<mapVars, errors>>]_vars


(***************************************************************************)
(* The viewport and the overlays with coordinates that do not all parse: a *)
(* fleet with a vehicle whose longitude is not a number, its position      *)
(* samples and its trips.  The map is what the engine was last asked to    *)
(* show and the layers are what it was asked to hold.                      *)
(***************************************************************************)
ViewFleet == <<VehA, VehD, VehC>>

NextView ==
    \/ onMounted
    \/ \E i \in 1..Len(inflight) : initResolved(i, <<Group("G1")>>)
    \/ \E i \in 1..Len(inflight) : refreshResolved(i, ViewFleet, "10:00:00")
    \/ \E k \in 1..Len(vehicles) : inflight = <<>> /\ onSelectVehicle(vehicles[k])
    \/ \E i \in 1..Len(inflight) :
           onSelectVehicleResolved(i, JsArray(TripsOf(inflight[i].code, inflight[i].from, inflight[i].to)))
    \/ \E i \in 1..Len(inflight) : fetchWeatherResolved(i, 3)
    \/ \E i \in 1..Len(inflight) : fetchAddressResolved(i, TRUE, TRUE)
    \/ \E mode \in {"live", "history"} :
           inflight = <<>> /\ ModeButtonEnabled(mode) /\ onMapMode(mode)
    \/ \E i \in 1..Len(inflight) : onMapModeResolved(i, JsArray(HistoryOf(inflight[i].code)))
    \/ inflight = <<>> /\ fitAll
    \/ \E k \in 1..Len(trips) : inflight = <<>> /\ drawTripPins(trips[k])

SpecView == Init /\ [][NextView]_vars

\* both coordinates parsed
Parsed(point) == ~isNaN(point[1]) /\ ~isNaN(point[2])
ParsedAll(points) == \A j \in 1..Len(points) : Parsed(points[j])
FullyParsable(v) ==
    /\ TruthyRaw(v.Latitude) /\ TruthyRaw(v.Longitude)
    /\ Parsed(<<parseFloat(v.Latitude), parseFloat(v.Longitude)>>)

\* C26: panTo(vehicle) leaves the viewport as it is when a coordinate of the
\* vehicle is missing or does not parse; fitAll(vehicles) leaves it as it is
\* when no vehicle has two parsable coordinates; neither moves the viewport
\* to a point with an unparsable coordinate.
C26_Viewport ==
    [][/\ IssuedBy("onSelectVehicle", "getTrips") =>
              /\ ~FullyParsable(selectedVehicle') => map' = map
              /\ map' # map => ParsedAll(map'.points)
       /\ fitAll =>
              /\ (\A k \in 1..Len(vehicles) : ~FullyParsable(vehicles[k])) => map' = map
              /\ map' # map => ParsedAll(map'.points)]_vars

\* C27: everything on the marker layer and on the route layer has a latitude
\* and a longitude that both parsed: a vehicle, a position sample or a trip
\* endpoint with a missing or unparsable coordinate gives no marker, no pin
\* and no segment.
C27_RenderedParsed ==
    map # Null =>
        /\ \A k \in 1..Len(markersLayer.layers) : Parsed(markersLayer.layers[k].latlng)
        /\ \A k \in 1..Len(historyLayer.layers) : ParsedAll(historyLayer.layers[k].points)

EcoSpeeds == {INT32_MIN, INT32_MIN + 1, 0, 72}
EcoSpeedAnswers(r) ==
    {JsArray(<<EcoEvent(r.code, r.from, r.to, 5, 2, s)>>) : s \in EcoSpeeds}
        \cup {JsArray(<<EcoEvent(r.code, r.from, r.to, 5, 2, s1),
                        EcoEvent(r.code, r.from, r.to, 1, 1, s2)>>) :
                  s1 \in EcoSpeeds, s2 \in EcoSpeeds}

NextEco ==
    \/ onMounted
    \/ \E i \in 1..Len(inflight) : initResolved(i, <<Group("G1")>>)
    \/ \E i \in 1..Len(inflight) : refreshResolved(i, TheFleet, "10:00:00")
    \/ \E k \in 1..Len(vehicles) : inflight = <<>> /\ onSelectVehicle(vehicles[k])
    \/ \E i \in 1..Len(inflight) :
           onSelectVehicleResolved(i, JsArray(TripsOf(inflight[i].code, inflight[i].from, inflight[i].to)))
    \/ \E i \in 1..Len(inflight) : fetchWeatherResolved(i, 3)
    \/ \E i \in 1..Len(inflight) : fetchAddressResolved(i, TRUE, TRUE)
    \/ \E tab \in {"trips", "eco"} : inflight = <<>> /\ DetailShown /\ onTabChange(tab)
    \/ inflight = <<>> /\ DetailShown /\ onReload
    \/ \E i \in 1..Len(inflight) :
           tripsResolved(i, JsArray(TripsOf(inflight[i].code, inflight[i].from, inflight[i].to)))
    \/ \E i \in 1..Len(inflight) : \E data \in EcoSpeedAnswers(inflight[i]) : ecoResolved(i, data)

SpecEco == Init /\ [][NextEco]_vars

\* the numbers of a chart
ChartNumbers(chart) ==
    IF chart = Null THEN {}
    ELSE {chart.data[d][i] : d \in 1..Len(chart.data), i \in 1..Len(chart.data[1])}

\* C29: an eco event whose Speed is the minimum 32-bit integer is shown as
\* "N/A", an event with any greater Speed is shown with its number, and the
\* minimum 32-bit integer is in no dataset of a chart.
C29_SentinelSpeed ==
    /\ \A k \in 1..Len(ecoEvents) :
           /\ ecoEvents[k].Speed = INT32_MIN => EcoRows(ecoEvents)[k].text = "N/A"
           /\ ecoEvents[k].Speed > INT32_MIN =>
                  /\ EcoRows(ecoEvents)[k].text = "km/h"
                  /\ EcoRows(ecoEvents)[k].value = ecoEvents[k].Speed
    /\ INT32_MIN \notin ChartNumbers(ecoChart) \cup ChartNumbers(speedChart)

\* the eco list shows an event without speed and one with the least speed,
\* and the eco chart is drawn from them
C29_Witness ==
    /\ activeTab = "eco"
    /\ Len(ecoEvents) = 2
    /\ ecoEvents[1].Speed = INT32_MIN
    /\ ecoEvents[2].Speed = INT32_MIN + 1
    /\ ecoChart # Null
    /\ Len(ecoChart.data[1]) = 2


\* C30: when the weather provider answers, the icon and the label of the
\* stored snapshot are the table entry of the returned weather_code, and the
\* "Unknown" entry for every code that is not a key of the table, an answer
\* without weather_code included.
C30_CodeLookup ==
    [][(Delivers("getCurrentWeather") /\ delivered'.ok) =>
           LET code == delivered'.body.items[1].weather_code
               meta == IF code \in WMO_KEYS THEN WMO_CODES(code) ELSE UNKNOWN_CODE
           IN  /\ weather' # Null
               /\ weather'.icon = meta.icon
               /\ weather'.label = meta.label]_vars


\* C31: whenever the map mode is history a vehicle is selected: ROUTE
\* HISTORY is disabled while nothing is selected, a selection never goes
\* back to none, and a history request is issued only for the selected
\* vehicle, which is not null.
C31_HistoryHasVehicle ==
    /\ [](mapMode = "history" => selectedVehicle # Null)
    /\ [](selectedVehicle = Null => ~ModeButtonEnabled("history"))
    /\ [][/\ selectedVehicle # Null => selectedVehicle' # Null
          /\ selectedVehicle = Null => mapMode' # "history"
          /\ Issues("getVehicleHistory") =>
                 /\ selectedVehicle # Null
                 /\ LastIssued(inflight', "getVehicleHistory").code = selectedVehicle.Code]_vars

\* the history of the selected vehicle has been asked for
C31_Witness ==
    /\ mapMode = "history"
    /\ selectedVehicle # Null
    /\ Len(Pending(inflight, "getVehicleHistory")) = 1
    /\ Pending(inflight, "getVehicleHistory")[1].code = selectedVehicle.Code


(***************************************************************************)
(* Enrichment that fails or stays unanswered: the weather and the address  *)
(* request of a selection are rejected or left pending while the user goes *)
(* on with the tabs, GO and the map mode.                                  *)
(***************************************************************************)
EnrichmentApis == {"getCurrentWeather", "reverseGeocode"}
\* only enrichment requests are in flight
PrimaryIdle == \A i \in 1..Len(inflight) : inflight[i].api \in EnrichmentApis
EnrichmentPending == \E i \in 1..Len(inflight) : inflight[i].api \in EnrichmentApis

NextSide ==
    \/ onMounted
    \/ \E i \in 1..Len(inflight) : initResolved(i, <<Group("G1")>>)
    \/ \E i \in 1..Len(inflight) : refreshResolved(i, TheFleet, "10:00:00")
    \/ \E k \in 1..Len(vehicles) : PrimaryIdle /\ onSelectVehicle(vehicles[k])
    \/ \E i \in 1..Len(inflight) :
           onSelectVehicleResolved(i, JsArray(TripsOf(inflight[i].code, inflight[i].from, inflight[i].to)))
    \/ \E i \in 1..Len(inflight) : fetchWeatherRejected(i)
    \/ \E i \in 1..Len(inflight) : fetchAddressRejected(i)
    \/ \E tab \in {"trips", "eco"} : PrimaryIdle /\ DetailShown /\ onTabChange(tab)
    \/ PrimaryIdle /\ DetailShown /\ onReload
    \/ \E i \in 1..Len(inflight) :
           tripsResolved(i, JsArray(TripsOf(inflight[i].code, inflight[i].from, inflight[i].to)))
    \/ \E i \in 1..Len(inflight) :
           ecoResolved(i, JsArray(EcoOf(inflight[i].code, inflight[i].from, inflight[i].to)))
    \/ \E mode \in {"live", "history"} :
           PrimaryIdle /\ ModeButtonEnabled(mode) /\ onMapMode(mode)
    \/ \E i \in 1..Len(inflight) : onMapModeResolved(i, JsArray(HistoryOf(inflight[i].code)))

SpecSide == Init /\ [][NextSide]_vars

\* C32: a weather or address request that fails changes nothing of the
\* selection, the map mode, the tab, the vehicles, the trips, the eco events,
\* their loading flags, the map and its layers; while such a request is
\* unanswered the tabs, GO and ROUTE HISTORY start their requests as they
\* would without it, and the answers to trips and eco requests are stored and
\* charted on delivery.
C32_EnrichmentIsAside ==
    /\ [][((Delivers("getCurrentWeather") \/ Delivers("reverseGeocode")) /\ ~delivered'.ok) =>
              /\ UNCHANGED <<fleetVars, detailVars, selectedVehicle, activeTab, mapMode,
                             chartVars, mapVars>>
              /\ Len(inflight') = Len(inflight) - 1]_vars
    /\ []((EnrichmentPending /\ PrimaryIdle /\ CanIssue(1) /\ DetailShown) =>
              /\ ENABLED onReload
              /\ ENABLED onTabChange("eco")
              /\ ENABLED onTabChange("trips")
              /\ ENABLED onMapMode("history"))
    /\ [][(EnrichmentPending /\ delivered'.ok) =>
              /\ (Delivers("getTrips") /\ activeTab = "trips") =>
                     /\ trips' = delivered'.body.items
                     /\ speedChart' = Chart("speedChart",
                            <<[i \in 1..Len(trips') |-> trips'[i].MaxSpeed],
                              [i \in 1..Len(trips') |-> trips'[i].AverageSpeed]>>)
              /\ (Delivers("getEcoDriving") /\ activeTab = "eco") =>
                     /\ ecoEvents' = delivered'.body.items
                     /\ ecoChart' # Null]_vars

\* the weather request failed, the address request is still unanswered, and
\* the eco tab has been fetched and charted meanwhile
C32_Witness ==
    /\ Len(Pending(inflight, "reverseGeocode")) > 0
    /\ weather = Null
    /\ ~loadingWeather
    /\ activeTab = "eco"
    /\ ecoChart # Null
    /\ Len(ecoEvents) > 0


\* the charts of the datasets in state
SpeedChartOf(ts) ==
    Chart("speedChart", <<[i \in 1..Len(ts) |-> ts[i].MaxSpeed],
                          [i \in 1..Len(ts) |-> ts[i].AverageSpeed]>>)
EcoChartOf(evs) == Chart("ecoChart", <<[i \in 1..Len(evs) |-> evs[i].EventType]>>)

C34_LoadingWhileInFlight ==
    /\ ~NonePending("getVehicles") => loading
    /\ ~NonePending("getTrips") => loadingTrips
    /\ ~NonePending("getEcoDriving") => loadingEco


\* C35: a draw destroys the previous chart of its canvas before it builds
\* the new one, so there is never more than one undestroyed speed chart and
\* never more than one undestroyed eco chart; a draw that finds no canvas or
\* an empty dataset creates and destroys nothing.
C35_OneChartPerCanvas ==
    /\ [](speedChart # Null => speedChart.undestroyed = 1)
    /\ [](ecoChart # Null => ecoChart.undestroyed = 1)
    /\ [][(Delivers("getTrips") /\
             ~speedCanvasPresent(selectedVehicle', activeTab', loadingTrips', trips')) =>
              speedChart' = speedChart]_vars
    /\ [][(Delivers("getEcoDriving") /\
             ~ecoCanvasPresent(selectedVehicle', activeTab', loadingEco', ecoEvents')) =>
              ecoChart' = ecoChart]_vars

\* GO has drawn the eco chart again, the speed chart of the selection exists
C35_Witness ==
    /\ delivered.req # Null
    /\ delivered.req.api = "getEcoDriving"
    /\ delivered.req.caller = "onReload"
    /\ delivered.ok
    /\ ecoCanvasPresent(selectedVehicle, activeTab, loadingEco, ecoEvents)
    /\ ecoChart # Null
    /\ speedChart # Null


(***************************************************************************)
(* Refreshes under a selection: the provider returns the selected vehicle  *)
(* with a new speed and position, or fails, while a vehicle is selected,   *)
(* its data is shown and the route history is on the map.                  *)
(***************************************************************************)
RefreshFleets == {<<VehA, VehC>>, <<VehA2>>}

\* no request of a handler of the detail panel or the map is in flight
FleetOnly == \A i \in 1..Len(inflight) : inflight[i].api \in {"getGroups", "getVehicles"}

NextRefresh ==
    \/ onMounted
    \/ \E i \in 1..Len(inflight) : initResolved(i, <<Group("G1")>>)
    \/ refresh
    \/ \E i \in 1..Len(inflight) : \E list \in RefreshFleets :
           refreshResolved(i, list, "10:00:00")
    \/ \E i \in 1..Len(inflight) : refreshRejected(i)
    \/ \E k \in 1..Len(vehicles) : FleetOnly /\ onSelectVehicle(vehicles[k])
    \/ \E i \in 1..Len(inflight) :
           onSelectVehicleResolved(i, JsArray(TripsOf(inflight[i].code, inflight[i].from, inflight[i].to)))
    \/ \E i \in 1..Len(inflight) : fetchWeatherResolved(i, 3)
    \/ \E i \in 1..Len(inflight) : fetchAddressResolved(i, TRUE, TRUE)
    \/ \E mode \in {"live", "history"} :
           FleetOnly /\ ModeButtonEnabled(mode) /\ onMapMode(mode)
    \/ \E i \in 1..Len(inflight) : onMapModeResolved(i, JsArray(HistoryOf(inflight[i].code)))

SpecRefresh == Init /\ [][NextRefresh]_vars

\* C36: a fleet refresh, from the press of REFRESH to its answer or its
\* failure, changes only vehicles, loading, lastRefresh and the marker
\* layer: the selected vehicle stays the object that was selected, also when
\* the new list holds the vehicle with other data or not at all, and the
\* map mode, the tab, trips, ecoEvents, weather, address and the route layer
\* stay as they are.
C36_RefreshFrame ==
    [][(IssuedBy("refresh", "getVehicles") \/ Delivers("getVehicles")) =>
           UNCHANGED <<groupCode, detailVars, weatherVars, appVars, chartVars,
                       map, historyLayer>>]_vars

\* A is selected with its data, address and route; the list now holds A with
\* another speed and position, and the markers are those of the new list
C36_Witness ==
    /\ delivered.req # Null
    /\ delivered.req.api = "getVehicles"
    /\ delivered.ok
    /\ selectedVehicle = VehA
    /\ vehicles = <<VehA2>>
    /\ mapMode = "history"
    /\ currentAddress # Null
    /\ Len(trips) > 0
    /\ Len(historyLayer.layers) > 0
    /\ markersLayer.layers = MarkersOf(<<VehA2>>)


(***************************************************************************)
(* Overlapping fetches for one selected vehicle: GO and the tabs are       *)
(* pressed again while answers are on their way, and the start date is     *)
(* moved from its default to today in between, so that a request for the   *)
(* range that starts today is always younger than a request for the        *)
(* default range.  The answers arrive in any order.                        *)
(***************************************************************************)
NextOverlap ==
    \/ onMounted
    \/ \E i \in 1..Len(inflight) : initResolved(i, <<Group("G1")>>)
    \/ \E i \in 1..Len(inflight) : refreshResolved(i, DetailFleet, "10:00:00")
    \/ \E k \in 1..Len(vehicles) : inflight = <<>> /\ selectedVehicle = Null
                                      /\ onSelectVehicle(vehicles[k])
    \/ \E i \in 1..Len(inflight) :
           onSelectVehicleResolved(i, JsArray(TripsOf(inflight[i].code, inflight[i].from, inflight[i].to)))
    \/ \E tab \in {"trips", "eco"} : DetailShown /\ onTabChange(tab)
    \/ DetailShown /\ onReload
    \/ updateFromDate(todayDate)
    \/ \E i \in 1..Len(inflight) :
           tripsResolved(i, JsArray(TripsOf(inflight[i].code, inflight[i].from, inflight[i].to)))
    \/ \E i \in 1..Len(inflight) :
           ecoResolved(i, JsArray(EcoOf(inflight[i].code, inflight[i].from, inflight[i].to)))

SpecOverlap == Init /\ [][NextOverlap]_vars

\* C37: when trips requests for the selected vehicle overlap, then once all
\* of them are answered trips is the answer to the request issued last, the
\* one with the date range of the last reload, in whatever order the answers
\* arrive.  Here: when the answer to a request for the default range arrives
\* last, after the answer to a younger request for the range that starts
\* today has been stored, trips stays the answer for the range that starts
\* today.
C37_LastRequestWins ==
    [][(/\ Delivers("getTrips") /\ delivered'.ok
        /\ Len(Pending(inflight', "getTrips")) = 0
        /\ delivered'.req.from = DateTime(weekAgoDate, "00:00")
        /\ Len(trips) > 0
        /\ trips[1].From = DateTime(todayDate, "00:00")) =>
           /\ Len(trips') > 0
           /\ trips'[1].From = DateTime(todayDate, "00:00")]_vars


(***************************************************************************)
(* Selections of vehicles with and without usable coordinates, the trips   *)
(* request of a selection answered or failing, and the enrichment requests *)
(* that follow.                                                            *)
(***************************************************************************)
NextGate ==
    \/ onMounted
    \/ \E i \in 1..Len(inflight) : initResolved(i, <<Group("G1")>>)
    \/ \E i \in 1..Len(inflight) : refreshResolved(i, ViewFleet, "10:00:00")
    \/ \E k \in 1..Len(vehicles) : onSelectVehicle(vehicles[k])
    \/ \E i \in 1..Len(inflight) :
           onSelectVehicleResolved(i, JsArray(TripsOf(inflight[i].code, inflight[i].from, inflight[i].to)))
    \/ \E i \in 1..Len(inflight) : onSelectVehicleRejected(i)
    \/ \E i \in 1..Len(inflight) : fetchWeatherResolved(i, 3)
    \/ \E i \in 1..Len(inflight) : fetchWeatherRejected(i)
    \/ \E i \in 1..Len(inflight) : fetchAddressResolved(i, TRUE, TRUE)
    \/ \E i \in 1..Len(inflight) : fetchAddressRejected(i)

SpecGate == Init /\ [][NextGate]_vars

\* the selection whose trips request is answered in this step
Answered == delivered'.req.v
BothParse(v) == ~isNaN(parseFloat(v.Latitude)) /\ ~isNaN(parseFloat(v.Longitude))
SelectionAnswered == Delivers("getTrips") /\ delivered'.req.caller = "onSelectVehicle"

\* C38: a weather or an address request is issued only in the step in which
\* the trips request of a selection is answered successfully, only when the
\* latitude and the longitude of that vehicle both parse, and for those
\* coordinates; when the trips request of a selection fails or a coordinate
\* does not parse, no weather and no address request is issued.
C38_EnrichmentAfterTrips ==
    /\ [][\A api \in EnrichmentApis : Issues(api) =>
              /\ SelectionAnswered /\ delivered'.ok
              /\ BothParse(Answered)
              /\ LastIssued(inflight', api).lat = parseFloat(Answered.Latitude)
              /\ LastIssued(inflight', api).lng = parseFloat(Answered.Longitude)]_vars
    /\ [][(SelectionAnswered /\ (~delivered'.ok \/ ~BothParse(Answered))) =>
              \A api \in EnrichmentApis : ~Issues(api)]_vars

\* the trips request of one selection has failed and that of a later
\* selection of A has been answered: weather and address of A are requested
C38_Witness ==
    /\ "onSelectVehicle" \in errors
    /\ selectedVehicle = VehA
    /\ Len(trips) > 0
    /\ \A api \in EnrichmentApis : Len(Pending(inflight, api)) = 1

====
